---- MODULE Spec2Model ----
(***************************************************************************)
(* GuessLexer (guess_lexer.py): language and framework detection by        *)
(* weighted regex / keyword matching with an optional file-extension hint. *)
(*                                                                         *)
(* Representation                                                          *)
(*  - A source text is a sequence of pieces (the text is the pieces joined *)
(*    by "\n"); a piece is a line of Vocabulary, or the text of a scenario *)
(*    as a whole.                                                          *)
(*  - A regex is carried as its source string.  re.findall and the keyword *)
(*    containment test are given by MatchTable / KeywordTable, which hold  *)
(*    what every regex / keyword of the registry finds in every piece; no  *)
(*    regex of the registry matches across the line break between two      *)
(*    pieces, so the count on a text is the sum over its pieces.           *)
(*  - A filename or path is a sequence of one-character strings, so that   *)
(*    lower(), os.path.splitext and os.path.basename are computed.         *)
(*  - A float is a fixed-point integer in units of 1/10000 (One = 1.0).    *)
(*    Every product and quotient the program forms from these operands is  *)
(*    exact in that unit; binary rounding of doubles is not represented.   *)
(*  - An ordered dict is a sequence of [key, value] entries in insertion   *)
(*    order.                                                               *)
(***************************************************************************)
EXTENDS Integers, Sequences, FiniteSets, TLC

(***************************************************************************)
(* Bounds of the explored inputs                                           *)
(***************************************************************************)
MaxLines == 2

(***************************************************************************)
(* Numeric literals of the program, in fixed point                         *)
(***************************************************************************)
One == 10000
PatternFactor == 6000
KeywordFactor == 4000
PenaltyFactor == 3000
HintFactor == 15000
FrameworkPatternFactor == 7000
FrameworkKeywordFactor == 3000
Normalizer == 50000
FusionFactor == 3000

Mul(a, b) == (a * b) \div One
Div(a, b) == (a * One) \div b
min(a, b) == IF a <= b THEN a ELSE b
max(a, b) == IF a >= b THEN a ELSE b

(***************************************************************************)
(* Python None, for the Optional[str] values that hold a language or a     *)
(* framework name, and Optional filenames                                  *)
(***************************************************************************)
None == "None"
NoFilename == [given |-> FALSE, name |-> << >>]
Str(s) == [given |-> TRUE, name |-> s]

(***************************************************************************)
(* The registry tables, as the three initializers return them              *)
(***************************************************************************)
_initialize_patterns ==
  <<
  [ name |-> "python",
    keywords |-> << "def", "class", "import", "from", "if __name__", "elif", "lambda", "yield" >>,
    patterns |-> << "^\\s*def\\s+\\w+\\s*\\(", "^\\s*class\\s+\\w+", "^\\s*import\\s+\\w+",
                  "^\\s*from\\s+\\w+\\s+import",
                  "if\\s+__name__\\s*==\\s*[\\'\"]__main__[\\'\"]", "^\\s*#.*python",
                  "print\\s*\\(", "^\\s*@\\w+" >>,
    anti_patterns |-> << "console\\.log", "function\\s*\\(", "var\\s+\\w+" >>,
    weight |-> 10000 ],
  [ name |-> "javascript",
    keywords |-> << "function", "var", "let", "const", "console.log", "require", "module.exports" >>,
    patterns |-> << "function\\s+\\w+\\s*\\(", "console\\.log\\s*\\(", "var\\s+\\w+\\s*=",
                  "let\\s+\\w+\\s*=", "const\\s+\\w+\\s*=", "require\\s*\\([\\'\"]",
                  "module\\.exports", "=>", "\\.then\\s*\\(", "async\\s+function" >>,
    anti_patterns |-> << "def\\s+\\w+", "class\\s+\\w+.*:", "import\\s+\\w+" >>,
    weight |-> 10000 ],
  [ name |-> "typescript",
    keywords |-> << "interface", "type", "enum", "namespace", "declare" >>,
    patterns |-> << "interface\\s+\\w+", "type\\s+\\w+\\s*=", "enum\\s+\\w+",
                  ":\\s*\\w+(\\[\\])?(\\s*\\|\\s*\\w+)*\\s*[=;]", "<\\w+>", "declare\\s+",
                  "namespace\\s+\\w+" >>,
    anti_patterns |-> << >>,
    weight |-> 12000 ],
  [ name |-> "java",
    keywords |-> << "public class", "private", "protected", "static", "void", "import java" >>,
    patterns |-> << "public\\s+class\\s+\\w+", "private\\s+\\w+\\s+\\w+",
                  "protected\\s+\\w+\\s+\\w+", "public\\s+static\\s+void\\s+main",
                  "import\\s+java\\.", "@\\w+\\s*\\n\\s*public", "System\\.out\\.println" >>,
    anti_patterns |-> << "def\\s+\\w+", "function\\s+\\w+" >>,
    weight |-> 10000 ],
  [ name |-> "csharp",
    keywords |-> << "using", "namespace", "class", "static void Main", "public", "private" >>,
    patterns |-> << "using\\s+\\w+;", "namespace\\s+\\w+", "public\\s+class\\s+\\w+",
                  "static\\s+void\\s+Main", "Console\\.WriteLine", "\\[assembly:", "#region" >>,
    anti_patterns |-> << "import\\s+", "def\\s+\\w+" >>,
    weight |-> 10000 ],
  [ name |-> "cpp",
    keywords |-> << "#include", "using namespace", "int main", "std::", "class" >>,
    patterns |-> << "#include\\s*<\\w+>", "using\\s+namespace\\s+std", "int\\s+main\\s*\\(",
                  "std::\\w+", "cout\\s*<<", "cin\\s*>>", "class\\s+\\w+\\s*{" >>,
    anti_patterns |-> << "def\\s+\\w+", "import\\s+" >>,
    weight |-> 10000 ],
  [ name |-> "c",
    keywords |-> << "#include", "int main", "printf", "scanf", "malloc" >>,
    patterns |-> << "#include\\s*<\\w+\\.h>", "int\\s+main\\s*\\(", "printf\\s*\\(",
                  "scanf\\s*\\(", "malloc\\s*\\(", "free\\s*\\(" >>,
    anti_patterns |-> << "class\\s+\\w+", "using\\s+namespace", "def\\s+\\w+" >>,
    weight |-> 10000 ],
  [ name |-> "go",
    keywords |-> << "package", "import", "func", "var", "const", "type" >>,
    patterns |-> << "package\\s+\\w+", "import\\s*\\(", "func\\s+\\w+\\s*\\(",
                  "func\\s+main\\s*\\(\\s*\\)", "fmt\\.Print", ":=", "go\\s+\\w+\\(" >>,
    anti_patterns |-> << "def\\s+\\w+", "class\\s+\\w+" >>,
    weight |-> 10000 ],
  [ name |-> "rust",
    keywords |-> << "fn", "let", "mut", "impl", "trait", "use" >>,
    patterns |-> << "fn\\s+\\w+\\s*\\(", "let\\s+\\w+\\s*=", "let\\s+mut\\s+\\w+", "impl\\s+\\w+",
                  "trait\\s+\\w+", "use\\s+\\w+::", "println!\\s*\\(", "#\\[derive\\(" >>,
    anti_patterns |-> << "def\\s+\\w+", "function\\s+\\w+", "import\\s+[\\'\"]package:",
                       "class\\s+\\w+\\s+extends", "StatelessWidget", "StatefulWidget" >>,
    weight |-> 10000 ],
  [ name |-> "ruby",
    keywords |-> << "def", "class", "end", "require", "puts", "attr_accessor" >>,
    patterns |-> << "def\\s+\\w+", "class\\s+\\w+", "end\\s*$", "require\\s+[\\'\"]", "puts\\s+",
                  "attr_accessor\\s+", "@\\w+", "=>\\s*" >>,
    anti_patterns |-> << "def\\s+\\w+\\s*\\(.*\\):", "import\\s+" >>,
    weight |-> 10000 ],
  [ name |-> "php",
    keywords |-> << "<?php", "function", "class", "echo", "$", "require_once" >>,
    patterns |-> << "<\\?php", "function\\s+\\w+\\s*\\(", "class\\s+\\w+", "echo\\s+", "\\$\\w+",
                  "require_once\\s+", "->\\w+", "public\\s+function" >>,
    anti_patterns |-> << "def\\s+\\w+", "import\\s+" >>,
    weight |-> 10000 ],
  [ name |-> "swift",
    keywords |-> << "func", "var", "let", "import", "class", "struct" >>,
    patterns |-> << "func\\s+\\w+\\s*\\(", "var\\s+\\w+\\s*:", "let\\s+\\w+\\s*=",
                  "import\\s+\\w+", "class\\s+\\w+\\s*:", "struct\\s+\\w+", "print\\s*\\(",
                  "@\\w+\\s*\\n" >>,
    anti_patterns |-> << "def\\s+\\w+", "function\\s+\\w+", "import\\s+[\\'\"]package:",
                       "StatelessWidget", "StatefulWidget" >>,
    weight |-> 10000 ],
  [ name |-> "kotlin",
    keywords |-> << "fun", "val", "var", "class", "object", "package" >>,
    patterns |-> << "fun\\s+\\w+\\s*\\(", "val\\s+\\w+\\s*=", "var\\s+\\w+\\s*=", "class\\s+\\w+",
                  "object\\s+\\w+", "package\\s+\\w+", "println\\s*\\(" >>,
    anti_patterns |-> << "def\\s+\\w+", "function\\s+\\w+", "import\\s+[\\'\"]package:",
                       "StatelessWidget", "StatefulWidget" >>,
    weight |-> 10000 ],
  [ name |-> "sql",
    keywords |-> << "SELECT", "FROM", "WHERE", "INSERT", "UPDATE", "DELETE", "CREATE" >>,
    patterns |-> << "SELECT\\s+.*FROM", "INSERT\\s+INTO", "UPDATE\\s+\\w+\\s+SET",
                  "DELETE\\s+FROM", "CREATE\\s+TABLE", "ALTER\\s+TABLE", "DROP\\s+TABLE",
                  "WHERE\\s+\\w+\\s*=" >>,
    anti_patterns |-> << "def\\s+\\w+", "function\\s+\\w+", "class\\s+\\w+" >>,
    weight |-> 10000 ],
  [ name |-> "html",
    keywords |-> << "<html>", "<head>", "<body>", "<div>", "<script>" >>,
    patterns |-> << "<!DOCTYPE\\s+html>", "<html.*>", "<head>", "<body.*>", "<div.*>",
                  "<script.*>", "<link\\s+.*rel=", "<meta\\s+.*>" >>,
    anti_patterns |-> << "def\\s+\\w+", "function\\s+\\w+(?!\\s*\\()" >>,
    weight |-> 10000 ],
  [ name |-> "css",
    keywords |-> << "{", "}", ":", ";", "@media", "@import" >>,
    patterns |-> << "\\w+\\s*\\{[^}]*\\}", "@media\\s*\\(", "@import\\s+", "#\\w+\\s*\\{",
                  "\\.\\w+\\s*\\{", ":\\w+\\s*\\{", "\\w+:\\s*\\w+;" >>,
    anti_patterns |-> << "def\\s+\\w+", "function\\s+\\w+", "class\\s+\\w+(?!\\s*\\{)" >>,
    weight |-> 10000 ],
  [ name |-> "dart",
    keywords |-> << "void", "main", "class", "import", "library", "part", "abstract", "extends",
                  "implements" >>,
    patterns |-> << "void\\s+main\\s*\\(\\s*\\)", "import\\s+[\\'\"]package:",
                  "import\\s+[\\'\"]dart:", "class\\s+\\w+\\s+extends\\s+\\w+",
                  "class\\s+\\w+\\s+implements\\s+\\w+", "abstract\\s+class\\s+\\w+",
                  "library\\s+\\w+;", "part\\s+of\\s+\\w+;",
                  "part\\s+[\\'\"][^\\'\\\"]+\\.dart[\\'\"];", "@override", "final\\s+\\w+",
                  "const\\s+\\w+", "var\\s+\\w+\\s*=", "\\w+\\?\\s+\\w+", "\\w+<\\w+>",
                  "List<\\w+>", "Map<\\w+,\\s*\\w+>", "Set<\\w+>", "Future<\\w+>",
                  "Stream<\\w+>", "async\\s*\\{", "await\\s+\\w+", "=>\\s*\\w+", "print\\s*\\(" >>,
    anti_patterns |-> << "def\\s+\\w+", "function\\s+\\w+", "console\\.log", "System\\.out\\.println" >>,
    weight |-> 10000 ]
  >>

_initialize_framework_patterns ==
  <<
  [ name |-> "react",
    language |-> "javascript",
    patterns |-> << "import\\s+.*from\\s+[\\'\"]react[\\'\"]", "React\\.Component",
                  "useState\\s*\\(", "useEffect\\s*\\(", "jsx", "className=",
                  "<\\w+.*>.*</\\w+>", "return\\s*\\(" >>,
    keywords |-> << "React", "useState", "useEffect", "Component", "jsx" >>,
    weight |-> 12000 ],
  [ name |-> "vue",
    language |-> "javascript",
    patterns |-> << "import\\s+.*from\\s+[\\'\"]vue[\\'\"]", "Vue\\.component", "<template>",
                  "<script>", "v-if=", "v-for=", "@click=" >>,
    keywords |-> << "Vue", "template", "v-if", "v-for" >>,
    weight |-> 12000 ],
  [ name |-> "angular",
    language |-> "typescript",
    patterns |-> << "import\\s+.*from\\s+[\\'\"]@angular", "@Component\\s*\\(",
                  "@Injectable\\s*\\(", "@NgModule\\s*\\(", "selector:\\s*[\\'\"]",
                  "templateUrl:\\s*[\\'\"]" >>,
    keywords |-> << "@Component", "@Injectable", "@NgModule", "Angular" >>,
    weight |-> 12000 ],
  [ name |-> "django",
    language |-> "python",
    patterns |-> << "from\\s+django", "import\\s+django", "models\\.Model", "HttpResponse",
                  "render\\s*\\(", "urlpatterns\\s*=", "@login_required" >>,
    keywords |-> << "django", "models", "HttpResponse", "urlpatterns" >>,
    weight |-> 12000 ],
  [ name |-> "flask",
    language |-> "python",
    patterns |-> << "from\\s+flask", "import\\s+flask", "Flask\\s*\\(", "@app\\.route",
                  "render_template\\s*\\(", "request\\.form" >>,
    keywords |-> << "Flask", "@app.route", "render_template" >>,
    weight |-> 12000 ],
  [ name |-> "fastapi",
    language |-> "python",
    patterns |-> << "from\\s+fastapi", "import\\s+fastapi", "FastAPI\\s*\\(",
                  "@app\\.(get|post|put|delete)", "Pydantic", "BaseModel" >>,
    keywords |-> << "FastAPI", "Pydantic", "BaseModel" >>,
    weight |-> 12000 ],
  [ name |-> "express",
    language |-> "javascript",
    patterns |-> << "require\\s*\\([\\'\"]express[\\'\"]",
                  "import\\s+.*from\\s+[\\'\"]express[\\'\"]", "app\\.get\\s*\\(",
                  "app\\.post\\s*\\(", "app\\.listen\\s*\\(", "express\\s*\\(\\s*\\)" >>,
    keywords |-> << "express", "app.get", "app.post", "app.listen" >>,
    weight |-> 12000 ],
  [ name |-> "spring",
    language |-> "java",
    patterns |-> << "import\\s+org\\.springframework", "@RestController", "@Service",
                  "@Repository", "@Autowired", "@RequestMapping", "@GetMapping" >>,
    keywords |-> << "@RestController", "@Service", "@Autowired", "springframework" >>,
    weight |-> 12000 ],
  [ name |-> "flutter",
    language |-> "dart",
    patterns |-> << "import\\s+[\\'\"]package:flutter/",
                  "import\\s+[\\'\"]package:flutter/material\\.dart[\\'\"]",
                  "import\\s+[\\'\"]package:flutter/cupertino\\.dart[\\'\"]",
                  "import\\s+[\\'\"]package:flutter/widgets\\.dart[\\'\"]",
                  "class\\s+\\w+\\s+extends\\s+StatelessWidget",
                  "class\\s+\\w+\\s+extends\\s+StatefulWidget",
                  "class\\s+\\w+\\s+extends\\s+State<\\w+>", "Widget\\s+build\\s*\\(",
                  "@override\\s+Widget\\s+build", "MaterialApp\\s*\\(", "CupertinoApp\\s*\\(",
                  "Scaffold\\s*\\(", "AppBar\\s*\\(", "Container\\s*\\(", "Column\\s*\\(",
                  "Row\\s*\\(", "Text\\s*\\(", "RaisedButton\\s*\\(", "ElevatedButton\\s*\\(",
                  "TextButton\\s*\\(", "OutlinedButton\\s*\\(", "FloatingActionButton\\s*\\(",
                  "ListView\\s*\\(", "GridView\\s*\\(", "Stack\\s*\\(", "Positioned\\s*\\(",
                  "Padding\\s*\\(", "Margin\\s*\\(", "SizedBox\\s*\\(", "Expanded\\s*\\(",
                  "Flexible\\s*\\(", "Navigator\\.\\w+", "setState\\s*\\(", "initState\\s*\\(",
                  "dispose\\s*\\(", "didChangeDependencies\\s*\\(", "runApp\\s*\\(",
                  "MaterialPageRoute\\s*\\(", "CupertinoPageRoute\\s*\\(", "Theme\\.\\w+",
                  "MediaQuery\\.\\w+", "ValueNotifier<\\w+>", "ValueListenableBuilder<\\w+>",
                  "StreamBuilder<\\w+>", "FutureBuilder<\\w+>", "AnimationController\\s*\\(",
                  "SingleTickerProviderStateMixin", "TickerProviderStateMixin",
                  "GestureDetector\\s*\\(", "InkWell\\s*\\(", "onTap:\\s*\\(",
                  "onPressed:\\s*\\(", "CrossAxisAlignment\\.\\w+", "MainAxisAlignment\\.\\w+",
                  "TextAlign\\.\\w+", "FontWeight\\.\\w+", "Colors\\.\\w+", "Icons\\.\\w+",
                  "EdgeInsets\\.\\w+", "BorderRadius\\.\\w+", "Decoration\\s*\\(",
                  "BoxDecoration\\s*\\(" >>,
    keywords |-> << "Flutter", "StatelessWidget", "StatefulWidget", "Widget", "build",
                  "MaterialApp", "CupertinoApp", "Scaffold", "AppBar", "Container", "Column",
                  "Row", "Text", "ElevatedButton", "FloatingActionButton", "ListView",
                  "GridView", "Stack", "Positioned", "Navigator", "setState", "initState",
                  "dispose", "runApp", "Theme", "MediaQuery", "StreamBuilder", "FutureBuilder",
                  "AnimationController", "GestureDetector", "CrossAxisAlignment",
                  "MainAxisAlignment", "Colors", "Icons" >>,
    weight |-> 13000 ]
  >>

\* variant: the extension table names a language the language table lacks
_initialize_extensions_stray_language ==
  << [ name |-> "python", extensions |-> << << ".", "p", "y" >> >> ],
     [ name |-> "cobol", extensions |-> << << ".", "c", "b", "l" >> >> ] >>

_initialize_extensions ==
  <<
  [ name |-> "python", extensions |-> << << ".", "p", "y" >>, << ".", "p", "y", "w" >>, << ".", "p", "y", "x" >> >> ],
  [ name |-> "javascript", extensions |-> << << ".", "j", "s" >>, << ".", "m", "j", "s" >>, << ".", "c", "j", "s" >> >> ],
  [ name |-> "typescript", extensions |-> << << ".", "t", "s" >>, << ".", "t", "s", "x" >> >> ],
  [ name |-> "java", extensions |-> << << ".", "j", "a", "v", "a" >> >> ],
  [ name |-> "csharp", extensions |-> << << ".", "c", "s" >> >> ],
  [ name |-> "cpp", extensions |-> << << ".", "c", "p", "p" >>, << ".", "c", "x", "x" >>, << ".", "c", "c" >>, << ".", "c", "+", "+" >> >> ],
  [ name |-> "c", extensions |-> << << ".", "c" >>, << ".", "h" >> >> ],
  [ name |-> "go", extensions |-> << << ".", "g", "o" >> >> ],
  [ name |-> "rust", extensions |-> << << ".", "r", "s" >> >> ],
  [ name |-> "ruby", extensions |-> << << ".", "r", "b" >> >> ],
  [ name |-> "php", extensions |-> << << ".", "p", "h", "p" >> >> ],
  [ name |-> "swift", extensions |-> << << ".", "s", "w", "i", "f", "t" >> >> ],
  [ name |-> "kotlin", extensions |-> << << ".", "k", "t" >>, << ".", "k", "t", "s" >> >> ],
  [ name |-> "sql", extensions |-> << << ".", "s", "q", "l" >> >> ],
  [ name |-> "html", extensions |-> << << ".", "h", "t", "m", "l" >>, << ".", "h", "t", "m" >> >> ],
  [ name |-> "css", extensions |-> << << ".", "c", "s", "s" >> >> ],
  [ name |-> "dart", extensions |-> << << ".", "d", "a", "r", "t" >> >> ]
  >>
\* the text of scenario 1, and the code of the built-in test case
\* "Django Model" (main.py, line 297); a regex of the registry matches across
\* a line break of the latter, so each of the two is kept in one piece
HelloScript ==
  "def hello():\n    print('hi')\nif __name__ == '__main__':\n    hello()"

DjangoModel ==
  "from django.db import models\nfrom django.contrib.auth.models import User\n\nclass Post(models.Model):\n    title = models.CharField(max_length=200)\n    author = models.ForeignKey(User, on_delete=models.CASCADE)\n    created_at = models.DateTimeField(auto_now_add=True)"

\* two texts with hits of two frameworks of python: django and flask with
\* equal scores, and flask, the later of the two in the table, ahead
DjangoFlaskTie == "import django\nimport flask"

FlaskOverDjango == "import django\nfrom flask import Flask"

MatchTable ==
  "    " :>
      (<< >>) @@
  "hello world" :>
      (<< >>) @@
  "    print('hi')" :>
      ("print\\s*\\(" :> 1) @@
  "from django" :>
      ("from\\s+django" :> 1) @@
  "urlpatterns = [HttpResponse]" :>
      ("HttpResponse" :> 1 @@
       "urlpatterns\\s*=" :> 1) @@
  "def hello():" :>
      ("^\\s*def\\s+\\w+\\s*\\(" :> 1 @@
       "def\\s+\\w+" :> 1 @@
       "def\\s+\\w+\\s*\\(.*\\):" :> 1) @@
  HelloScript :>
      ("^\\s*def\\s+\\w+\\s*\\(" :> 1 @@
       "if\\s+__name__\\s*==\\s*[\\'\"]__main__[\\'\"]" :> 1 @@
       "print\\s*\\(" :> 1 @@
       "def\\s+\\w+" :> 1 @@
       "def\\s+\\w+\\s*\\(.*\\):" :> 1) @@
  DjangoModel :>
      ("^\\s*class\\s+\\w+" :> 1 @@
       "class\\s+\\w+.*:" :> 1 @@
       "import\\s+\\w+" :> 2 @@
       ":\\s*\\w+(\\[\\])?(\\s*\\|\\s*\\w+)*\\s*[=;]" :> 1 @@
       "import\\s+" :> 2 @@
       "class\\s+\\w+" :> 1 @@
       "class\\s+\\w+(?!\\s*\\{)" :> 1 @@
       "from\\s+django" :> 2 @@
       "models\\.Model" :> 1) @@
  DjangoFlaskTie :>
      ("^\\s*import\\s+\\w+" :> 2 @@
       "import\\s+\\w+" :> 2 @@
       "import\\s+" :> 2 @@
       "import\\s+django" :> 1 @@
       "import\\s+flask" :> 1) @@
  FlaskOverDjango :>
      ("^\\s*import\\s+\\w+" :> 1 @@
       "^\\s*from\\s+\\w+\\s+import" :> 1 @@
       "import\\s+\\w+" :> 2 @@
       "import\\s+" :> 2 @@
       "import\\s+django" :> 1 @@
       "from\\s+flask" :> 1 @@
       "import\\s+flask" :> 1)

KeywordTable ==
  "    " :> {} @@
  "hello world" :> {} @@
  "    print('hi')" :> {} @@
  "from django" :> {"from", "FROM", "django"} @@
  "urlpatterns = [HttpResponse]" :> {"HttpResponse", "urlpatterns"} @@
  "def hello():" :> {"def", ":"} @@
  HelloScript :> {"def", "if __name__", ":", "main"} @@
  DjangoModel :> {"class", "import", "from", "let", "use", "FROM", "DELETE", "CREATE", ":", "django", "models"} @@
  DjangoFlaskTie :> {"import", "django", "Flask"} @@
  FlaskOverDjango :> {"import", "from", "FROM", "django", "Flask"}

\* the lines the explored texts are made of
Vocabulary ==
  { "    ", "hello world", "    print('hi')", "from django",
    "urlpatterns = [HttpResponse]", "def hello():" }

(***************************************************************************)
(* Strings                                                                 *)
(***************************************************************************)
UpperToLower ==
  "A" :> "a" @@ "B" :> "b" @@ "C" :> "c" @@ "D" :> "d" @@ "E" :> "e" @@
  "F" :> "f" @@ "G" :> "g" @@ "H" :> "h" @@ "I" :> "i" @@ "J" :> "j" @@
  "K" :> "k" @@ "L" :> "l" @@ "M" :> "m" @@ "N" :> "n" @@ "O" :> "o" @@
  "P" :> "p" @@ "Q" :> "q" @@ "R" :> "r" @@ "S" :> "s" @@ "T" :> "t" @@
  "U" :> "u" @@ "V" :> "v" @@ "W" :> "w" @@ "X" :> "x" @@ "Y" :> "y" @@
  "Z" :> "z"

\* str.lower()
lower(s) ==
  [k \in 1..Len(s) |-> IF s[k] \in DOMAIN UpperToLower THEN UpperToLower[s[k]] ELSE s[k]]

\* str.rfind(c), 1-based; 0 when c does not occur (Python's -1)
rfind(s, c) ==
  LET hits == {k \in 1..Len(s) : s[k] = c}
  IN  IF hits = {} THEN 0 ELSE CHOOSE k \in hits : \A m \in hits : m <= k

\* os.path.splitext(p)[1]: the suffix from the last dot of the last path
\* component, unless that component has only dots before it
splitext(p) ==
  LET sepIndex == rfind(p, "/")
      dotIndex == rfind(p, ".")
  IN  IF dotIndex > sepIndex /\ \E k \in (sepIndex + 1)..(dotIndex - 1) : p[k] # "."
      THEN SubSeq(p, dotIndex, Len(p))
      ELSE << >>

\* os.path.basename(p)
basename(p) == SubSeq(p, rfind(p, "/") + 1, Len(p))

\* the lines that consist of whitespace only
WhitespaceLines == {"    "}

\* str.strip() on a text: leading and trailing whitespace goes, which removes
\* every leading and trailing whitespace-only line
RECURSIVE lstrip(_)
lstrip(code) ==
  IF code # << >> /\ Head(code) \in WhitespaceLines THEN lstrip(Tail(code)) ELSE code

RECURSIVE rstrip(_)
rstrip(code) ==
  IF code # << >> /\ code[Len(code)] \in WhitespaceLines
  THEN rstrip(SubSeq(code, 1, Len(code) - 1))
  ELSE code

\* variant: the text is tested as it is (not code, instead of not code.strip())
strip_absent(code) == code

strip(code) == rstrip(lstrip(code))

(***************************************************************************)
(* Matching                                                                *)
(***************************************************************************)
RECURSIVE Sum(_)
Sum(s) == IF s = << >> THEN 0 ELSE Head(s) + Sum(Tail(s))

\* len(re.findall(pattern, line, re.MULTILINE | re.IGNORECASE))
MatchCount(pattern, line) ==
  IF pattern \in DOMAIN MatchTable[line] THEN MatchTable[line][pattern] ELSE 0

\* len(re.findall(pattern, code, re.MULTILINE | re.IGNORECASE))
findall(pattern, code) ==
  Sum([k \in 1..Len(code) |-> MatchCount(pattern, code[k])])

\* keyword.lower() in code.lower()
contains(keyword, code) ==
  \E k \in 1..Len(code) : keyword \in KeywordTable[code[k]]

\* the regex sources re.compile rejects, and str(e) of the re.error it raises
Malformed == { "(" }
re_error == "missing ), unterminated subpattern at position 0"

\* re.findall raises on one of the rules: nothing compiles a rule before
Raises(rules) == \E k \in 1..Len(rules) : rules[k] \in Malformed

(***************************************************************************)
(* Ordered dicts                                                           *)
(***************************************************************************)
EmptyDict == << >>
Keys(d) == [k \in 1..Len(d) |-> d[k].key]
Has(d, key) == \E k \in 1..Len(d) : d[k].key = key
Get(d, key) == d[CHOOSE k \in 1..Len(d) : d[k].key = key].value
Put(d, key, value) ==
  IF Has(d, key)
  THEN [k \in 1..Len(d) |-> IF d[k].key = key THEN [key |-> key, value |-> value] ELSE d[k]]
  ELSE Append(d, [key |-> key, value |-> value])

\* max(d.keys(), key=lambda x: d[x]): the first key, in insertion order,
\* whose value is maximal
MaxKey(d) ==
  LET best == CHOOSE k \in 1..Len(d) :
                /\ \A m \in 1..Len(d) : d[m].value <= d[k].value
                /\ \A m \in 1..(k - 1) : d[m].value < d[k].value
  IN  d[best].key

(***************************************************************************)
(* Evidence lines and results                                              *)
(***************************************************************************)
Line(kind, item, n) == [kind |-> kind, item |-> item, n |-> n]
Plain(kind) == Line(kind, << >>, 0)

DetectionResult(language, confidence, framework, evidence) ==
  [language |-> language, confidence |-> confidence,
   framework |-> framework, evidence |-> evidence]

\* one evidence line for every regex of the list that matches, in list order;
\* the line shows the number of matches when counted
PatternEvidence(kind, patterns, text, counted) ==
  LET hit == SelectSeq(patterns, LAMBDA p : findall(p, text) > 0)
  IN  [k \in 1..Len(hit) |->
         Line(kind, << hit[k] >>, IF counted THEN findall(hit[k], text) ELSE 0)]

\* one evidence line for every keyword of the list that occurs, in list order
KeywordEvidence(kind, keywords, text) ==
  LET hit == SelectSeq(keywords, LAMBDA kw : contains(kw, text))
  IN  [k \in 1..Len(hit) |-> Line(kind, << hit[k] >>, 0)]

(***************************************************************************)
(* GuessLexer._get_extension_hint                                          *)
(***************************************************************************)
\* variant: the suffix is looked up as it is written
_get_extension_hint_case_sensitive(extensions, name) ==
  LET ext  == splitext(name)
      hits == {k \in 1..Len(extensions) :
                 \E e \in 1..Len(extensions[k].extensions) : extensions[k].extensions[e] = ext}
  IN  IF hits = {} THEN None
      ELSE extensions[CHOOSE k \in hits : \A m \in hits : k <= m].name

_get_extension_hint(extensions, name) ==
  LET ext  == splitext(lower(name))
      hits == {k \in 1..Len(extensions) :
                 \E e \in 1..Len(extensions[k].extensions) : extensions[k].extensions[e] = ext}
  IN  IF hits = {} THEN None
      ELSE extensions[CHOOSE k \in hits : \A m \in hits : k <= m].name

(***************************************************************************)
(* GuessLexer._score_language                                              *)
(***************************************************************************)
\* variant: pattern hits add to the score but leave no evidence line
_score_language_silent_patterns(text, patterns) ==
  LET pattern_matches == Sum([k \in 1..Len(patterns.patterns) |-> findall(patterns.patterns[k], text)])
      keyword_matches == Len(SelectSeq(patterns.keywords, LAMBDA kw : contains(kw, text)))
      anti_pattern_matches ==
        Sum([k \in 1..Len(patterns.anti_patterns) |-> findall(patterns.anti_patterns[k], text)])
      evidence ==
        KeywordEvidence("Keyword found", patterns.keywords, text)
        \o PatternEvidence("Anti-pattern found", patterns.anti_patterns, text, TRUE)
      base_score == Mul(pattern_matches * PatternFactor + keyword_matches * KeywordFactor,
                        patterns.weight)
      penalty == anti_pattern_matches * PenaltyFactor
  IN  [score |-> max(0, base_score - penalty), evidence |-> evidence]

\* variant: a keyword counts once for every line it occurs in
_score_language_keyword_occurrences(text, patterns) ==
  LET pattern_matches == Sum([k \in 1..Len(patterns.patterns) |-> findall(patterns.patterns[k], text)])
      keyword_matches ==
        Sum([k \in 1..Len(patterns.keywords) |->
               Cardinality({i \in 1..Len(text) : patterns.keywords[k] \in KeywordTable[text[i]]})])
      anti_pattern_matches ==
        Sum([k \in 1..Len(patterns.anti_patterns) |-> findall(patterns.anti_patterns[k], text)])
      evidence ==
        PatternEvidence("Pattern match", patterns.patterns, text, TRUE)
        \o KeywordEvidence("Keyword found", patterns.keywords, text)
        \o PatternEvidence("Anti-pattern found", patterns.anti_patterns, text, TRUE)
      base_score == Mul(pattern_matches * PatternFactor + keyword_matches * KeywordFactor,
                        patterns.weight)
      penalty == anti_pattern_matches * PenaltyFactor
  IN  [score |-> max(0, base_score - penalty), evidence |-> evidence]

\* variant: the keyword lines come before the pattern lines
_score_language_keywords_first(text, patterns) ==
  LET pattern_matches == Sum([k \in 1..Len(patterns.patterns) |-> findall(patterns.patterns[k], text)])
      keyword_matches == Len(SelectSeq(patterns.keywords, LAMBDA kw : contains(kw, text)))
      anti_pattern_matches ==
        Sum([k \in 1..Len(patterns.anti_patterns) |-> findall(patterns.anti_patterns[k], text)])
      evidence ==
        KeywordEvidence("Keyword found", patterns.keywords, text)
        \o PatternEvidence("Pattern match", patterns.patterns, text, TRUE)
        \o PatternEvidence("Anti-pattern found", patterns.anti_patterns, text, TRUE)
      base_score == Mul(pattern_matches * PatternFactor + keyword_matches * KeywordFactor,
                        patterns.weight)
      penalty == anti_pattern_matches * PenaltyFactor
  IN  [score |-> max(0, base_score - penalty), evidence |-> evidence]

_score_language(text, patterns) ==
  LET pattern_matches == Sum([k \in 1..Len(patterns.patterns) |-> findall(patterns.patterns[k], text)])
      keyword_matches == Len(SelectSeq(patterns.keywords, LAMBDA kw : contains(kw, text)))
      anti_pattern_matches ==
        Sum([k \in 1..Len(patterns.anti_patterns) |-> findall(patterns.anti_patterns[k], text)])
      evidence ==
        PatternEvidence("Pattern match", patterns.patterns, text, TRUE)
        \o KeywordEvidence("Keyword found", patterns.keywords, text)
        \o PatternEvidence("Anti-pattern found", patterns.anti_patterns, text, TRUE)
      base_score == Mul(pattern_matches * PatternFactor + keyword_matches * KeywordFactor,
                        patterns.weight)
      penalty == anti_pattern_matches * PenaltyFactor
  IN  [score |-> max(0, base_score - penalty), evidence |-> evidence]

(***************************************************************************)
(* GuessLexer._detect_framework: the body of its loop for one framework,   *)
(* and what follows the loop                                               *)
(***************************************************************************)
\* variant: the factors of the language scorer, 0.6 and 0.4
_score_framework_language_factors(text, patterns) ==
  LET pattern_matches == Sum([k \in 1..Len(patterns.patterns) |-> findall(patterns.patterns[k], text)])
      keyword_matches == Len(SelectSeq(patterns.keywords, LAMBDA kw : contains(kw, text)))
      evidence ==
        PatternEvidence("Framework pattern", patterns.patterns, text, FALSE)
        \o KeywordEvidence("Framework keyword", patterns.keywords, text)
  IN  [hit |-> pattern_matches > 0 \/ keyword_matches > 0,
       score |-> Mul(pattern_matches * PatternFactor
                       + keyword_matches * KeywordFactor, patterns.weight),
       evidence |-> evidence]

_score_framework(text, patterns) ==
  LET pattern_matches == Sum([k \in 1..Len(patterns.patterns) |-> findall(patterns.patterns[k], text)])
      keyword_matches == Len(SelectSeq(patterns.keywords, LAMBDA kw : contains(kw, text)))
      evidence ==
        PatternEvidence("Framework pattern", patterns.patterns, text, FALSE)
        \o KeywordEvidence("Framework keyword", patterns.keywords, text)
  IN  [hit |-> pattern_matches > 0 \/ keyword_matches > 0,
       score |-> Mul(pattern_matches * FrameworkPatternFactor
                       + keyword_matches * FrameworkKeywordFactor, patterns.weight),
       evidence |-> evidence]

\* Optional[Tuple[str, float, List[str]]]
NoFramework == [found |-> FALSE, framework |-> None, confidence |-> 0, evidence |-> << >>]

\* variant: the raw score of the best framework is clamped without the
\* division by 5.0
_detect_framework_result_unnormalised(scores, evidence) ==
  IF scores = EmptyDict THEN NoFramework
  ELSE LET best_framework == MaxKey(scores)
       IN  [found |-> TRUE, framework |-> best_framework,
            confidence |-> min(Get(scores, best_framework), One),
            evidence |-> Get(evidence, best_framework)]

_detect_framework_result(scores, evidence) ==
  IF scores = EmptyDict THEN NoFramework
  ELSE LET best_framework == MaxKey(scores)
       IN  [found |-> TRUE, framework |-> best_framework,
            confidence |-> min(Div(Get(scores, best_framework), Normalizer), One),
            evidence |-> Get(evidence, best_framework)]

(***************************************************************************)
(* GuessLexer.analyze_code, stage by stage                                 *)
(***************************************************************************)
EmptyCode == DetectionResult("unknown", 0, None, << Plain("Empty code") >>)
NoPatternsMatched == DetectionResult("unknown", 0, None, << Plain("No patterns matched") >>)

\* lines 536-538
ExtensionHint(extensions, name) ==
  IF name.given /\ name.name # << >> THEN _get_extension_hint(extensions, name.name) ELSE None

\* variant: a language is kept when anything of it was found
ScoreOneLanguageMatched(acc, text, entry) ==
  LET r == _score_language(text, entry)
  IN  IF r.evidence # << >>
      THEN [scores |-> Put(acc.scores, entry.name, r.score),
            evidence |-> Put(acc.evidence, entry.name, r.evidence)]
      ELSE acc

\* variant: a language is kept when its score is >= 0
ScoreOneLanguageNonNegative(acc, text, entry) ==
  LET r == _score_language(text, entry)
  IN  IF r.score >= 0
      THEN [scores |-> Put(acc.scores, entry.name, r.score),
            evidence |-> Put(acc.evidence, entry.name, r.evidence)]
      ELSE acc

\* lines 545-548, the body of the loop over the language table
ScoreOneLanguage(acc, text, entry) ==
  LET r == _score_language(text, entry)
  IN  IF r.score > 0
      THEN [scores |-> Put(acc.scores, entry.name, r.score),
            evidence |-> Put(acc.evidence, entry.name, r.evidence)]
      ELSE acc

\* variant: the hint is not applied
ApplyExtensionHintIgnored(acc, hint, name) == acc

\* variant: the score is divided by the factor
ApplyExtensionHintDivided(acc, hint, name) ==
  IF hint # None /\ Has(acc.scores, hint)
  THEN [scores |-> Put(acc.scores, hint, Div(Get(acc.scores, hint), HintFactor)),
        evidence |-> Put(acc.evidence, hint,
                         Append(Get(acc.evidence, hint),
                                Line("File extension hint", name.name, 0)))]
  ELSE acc

\* variant: the factor is added to the score
ApplyExtensionHintAdded(acc, hint, name) ==
  IF hint # None /\ Has(acc.scores, hint)
  THEN [scores |-> Put(acc.scores, hint, Get(acc.scores, hint) + HintFactor),
        evidence |-> Put(acc.evidence, hint,
                         Append(Get(acc.evidence, hint),
                                Line("File extension hint", name.name, 0)))]
  ELSE acc

\* variant: the hinted language enters the score map when it is missing
ApplyExtensionHintForced(acc, hint, name) ==
  IF hint # None
  THEN LET old  == IF Has(acc.scores, hint) THEN Get(acc.scores, hint) ELSE One
           seen == IF Has(acc.evidence, hint) THEN Get(acc.evidence, hint) ELSE << >>
       IN  [scores |-> Put(acc.scores, hint, Mul(old, HintFactor)),
            evidence |-> Put(acc.evidence, hint,
                             Append(seen, Line("File extension hint", name.name, 0)))]
  ELSE acc

\* lines 551-553
ApplyExtensionHint(acc, hint, name) ==
  IF hint # None /\ Has(acc.scores, hint)
  THEN [scores |-> Put(acc.scores, hint, Mul(Get(acc.scores, hint), HintFactor)),
        evidence |-> Put(acc.evidence, hint,
                         Append(Get(acc.evidence, hint),
                                Line("File extension hint", name.name, 0)))]
  ELSE acc

\* min(d.keys(), key=lambda x: d[x])
MinKey(d) ==
  LET best == CHOOSE k \in 1..Len(d) :
                /\ \A m \in 1..Len(d) : d[m].value >= d[k].value
                /\ \A m \in 1..(k - 1) : d[m].value > d[k].value
  IN  d[best].key

\* variant: of several keys with the maximal value the last one is taken
BestLanguageLast(scores) ==
  LET best == CHOOSE k \in 1..Len(scores) :
                /\ \A m \in 1..Len(scores) : scores[m].value <= scores[k].value
                /\ \A m \in (k + 1)..Len(scores) : scores[m].value < scores[k].value
  IN  scores[best].key

\* variant: min for max
BestLanguageMin(scores) == MinKey(scores)

\* lines 559-560
BestLanguage(scores) == MaxKey(scores)
\* variant: the confidence is the whole part of the clamped score
LanguageConfidenceWholePart(scores) == (min(Get(scores, BestLanguage(scores)), One) \div One) * One

LanguageConfidence(scores) == min(Get(scores, BestLanguage(scores)), One)

\* variant: the frameworks of every language are scored
ScoreOneFrameworkAnyLanguage(acc, text, language, entry) ==
  LET r == _score_framework(text, entry)
  IN  IF r.hit
      THEN [scores |-> Put(acc.scores, entry.name, r.score),
            evidence |-> Put(acc.evidence, entry.name, r.evidence)]
      ELSE acc

\* variant: a framework of the language is kept without a hit
ScoreOneFrameworkWithoutHit(acc, text, language, entry) ==
  IF entry.language # language THEN acc
  ELSE LET r == _score_framework(text, entry)
       IN  [scores |-> Put(acc.scores, entry.name, r.score),
            evidence |-> Put(acc.evidence, entry.name, r.evidence)]

\* lines 632-655, the body of the loop over the framework table
ScoreOneFramework(acc, text, language, entry) ==
  IF entry.language # language THEN acc
  ELSE LET r == _score_framework(text, entry)
       IN  IF r.hit
           THEN [scores |-> Put(acc.scores, entry.name, r.score),
                 evidence |-> Put(acc.evidence, entry.name, r.evidence)]
           ELSE acc

\* variant: the fused confidence is not clamped
FuseUnclamped(language, conf, evidence, framework_result) ==
  DetectionResult(language,
                  IF framework_result.found
                  THEN conf + Mul(framework_result.confidence, FusionFactor)
                  ELSE conf,
                  framework_result.framework,
                  Get(evidence, language) \o framework_result.evidence)

\* variant: the evidence is that of the first language that scored
FuseFirstScored(language, conf, evidence, framework_result) ==
  DetectionResult(language,
                  IF framework_result.found
                  THEN min(conf + Mul(framework_result.confidence, FusionFactor), One)
                  ELSE conf,
                  framework_result.framework,
                  evidence[1].value \o framework_result.evidence)

\* lines 567-581
Fuse(language, conf, evidence, framework_result) ==
  DetectionResult(language,
                  IF framework_result.found
                  THEN min(conf + Mul(framework_result.confidence, FusionFactor), One)
                  ELSE conf,
                  framework_result.framework,
                  Get(evidence, language) \o framework_result.evidence)

EmptyAcc == [scores |-> EmptyDict, evidence |-> EmptyDict]

RECURSIVE LanguageLoop(_, _, _, _)
LanguageLoop(acc, text, table, k) ==
  IF k > Len(table) THEN acc
  ELSE LanguageLoop(ScoreOneLanguage(acc, text, table[k]), text, table, k + 1)

RECURSIVE FrameworkLoop(_, _, _, _, _)
FrameworkLoop(acc, text, language, table, k) ==
  IF k > Len(table) THEN acc
  ELSE FrameworkLoop(ScoreOneFramework(acc, text, language, table[k]), text, language, table, k + 1)

\* analyze_code as a function of the tables and its arguments: the stages
\* above in program order
analyze_code(languages, frameworks, extensions, text, name) ==
  IF strip(text) = << >> THEN EmptyCode
  ELSE LET hint   == ExtensionHint(extensions, name)
           scored == LanguageLoop(EmptyAcc, text, languages, 1)
           hinted == ApplyExtensionHint(scored, hint, name)
       IN  IF hinted.scores = EmptyDict THEN NoPatternsMatched
           ELSE LET best == BestLanguage(hinted.scores)
                    fw   == FrameworkLoop(EmptyAcc, text, best, frameworks, 1)
                IN  Fuse(best, LanguageConfidence(hinted.scores), hinted.evidence,
                         _detect_framework_result(fw.scores, fw.evidence))

(***************************************************************************)
(* Inputs                                                                  *)
(***************************************************************************)
\* the two texts the scenarios analyze
ScenarioTexts == { << HelloScript >>, << DjangoModel >> }

\* the texts with two candidate frameworks
FrameworkTexts == { << DjangoFlaskTie >>, << FlaskOverDjango >> }

Texts ==
  UNION {[1..n -> Vocabulary] : n \in 0..MaxLines} \cup ScenarioTexts \cup FrameworkTexts

Filenames ==
  { NoFilename,
    Str(<< "x", ".", "p", "y" >>),
    Str(<< "X", ".", "P", "Y" >>),
    Str(<< "q", ".", "s", "q", "l" >>),
    Str(<< "a", ".", "r", "b" >>),
    Str(<< "s", ".", "c", "s", "s" >>),
    Str(<< ".", "p", "y" >>),
    Str(<< "m", "o", "d", "e", "l", "s", ".", "p", "y" >>) }

Paths ==
  { << "d", ".", "p", "y", "/", "q", ".", "s", "q", "l" >>,
    << "d", ".", "p", "y", "/", "r" >> }

\* str(e) of the exceptions open() and read() raise
ErrorMessages == {"No such file or directory", "invalid start byte"}

\* the calls whose first result is remembered, to compare later calls with
\* the same arguments against it (the texts are not blank, so a failed
\* analyze_file, which leaves code empty, is never remembered)
Probes ==
  { [code |-> << "from django", "urlpatterns = [HttpResponse]" >>,
     filename |-> Str(<< "q", ".", "s", "q", "l" >>)] }

(***************************************************************************)
(* State                                                                   *)
(***************************************************************************)
VARIABLES
  language_patterns,    \* self.language_patterns
  framework_patterns,   \* self.framework_patterns
  file_extensions,      \* self.file_extensions
  pc,                   \* position of the call in progress
  filepath,             \* analyze_file: filepath
  code,                 \* analyze_code: code
  filename,             \* analyze_code: filename
  extension_hint,
  language_scores,
  language_evidence,
  lang_idx,             \* position of the loop of line 544
  best_language,
  confidence,
  framework_scores,     \* _detect_framework: framework_scores
  framework_evidence,   \* _detect_framework: framework_evidence
  fw_idx,               \* position of the loop of line 631
  result,               \* the DetectionResult returned
  memo,                 \* history: the first completed probe call, and
                        \* whether a call has raised
  peer                  \* the frame of a second call, made by another thread

tables == << language_patterns, framework_patterns, file_extensions >>
locals == << extension_hint, language_scores, language_evidence, lang_idx,
             best_language, confidence, framework_scores, framework_evidence, fw_idx >>
frame == << pc, filepath, code, filename, extension_hint, language_scores,
            language_evidence, lang_idx, best_language, confidence, framework_scores,
            framework_evidence, fw_idx, result >>
vars == << language_patterns, framework_patterns, file_extensions, pc, filepath, code,
           filename, extension_hint, language_scores, language_evidence, lang_idx,
           best_language, confidence, framework_scores, framework_evidence, fw_idx,
           result, memo, peer >>

NoResult == DetectionResult(None, 0, None, << >>)
NoMemo ==
  [set |-> FALSE, code |-> << >>, filename |-> NoFilename, result |-> NoResult,
   between |-> FALSE, raised |-> FALSE]

\* the frame of analyze_code (its arguments, its locals and those of
\* _detect_framework, its position and its result) when no call is in
\* progress; overlapped is history: the call has scored a language while
\* the other call was between its first and its last step; returned is
\* history too: the thread has completed a call
IdleFrame ==
  [pc |-> "idle", code |-> << >>, filename |-> NoFilename, extension_hint |-> None,
   language_scores |-> EmptyDict, language_evidence |-> EmptyDict, lang_idx |-> 0,
   best_language |-> None, confidence |-> 0, framework_scores |-> EmptyDict,
   framework_evidence |-> EmptyDict, fw_idx |-> 0, result |-> NoResult,
   overlapped |-> FALSE, returned |-> FALSE]

\* GuessLexer.__init__, then no call in progress
Init ==
  /\ language_patterns = _initialize_patterns
  /\ framework_patterns = _initialize_framework_patterns
  /\ file_extensions = _initialize_extensions
  /\ pc = "idle"
  /\ filepath = NoFilename
  /\ code = << >>
  /\ filename = NoFilename
  /\ extension_hint = None
  /\ language_scores = EmptyDict
  /\ language_evidence = EmptyDict
  /\ lang_idx = 0
  /\ best_language = None
  /\ confidence = 0
  /\ framework_scores = EmptyDict
  /\ framework_evidence = EmptyDict
  /\ fw_idx = 0
  /\ result = NoResult
  /\ memo = NoMemo
  /\ peer = IdleFrame

(***************************************************************************)
(* Calls                                                                   *)
(***************************************************************************)
\* a caller invokes analyze_code(text, name)
CallAnalyzeCode(text, name) ==
  /\ pc = "idle"
  /\ code' = text
  /\ filename' = name
  /\ pc' = "start"
  /\ UNCHANGED << tables, locals, filepath, result, memo, peer >>

\* variant: analyze_code is entered with the path as it was given
AnalyzeFileReadFullPath(path, content) ==
  /\ pc = "idle"
  /\ filepath' = Str(path)
  /\ code' = content
  /\ filename' = Str(path)
  /\ pc' = "start"
  /\ UNCHANGED << tables, locals, result, memo, peer >>

\* analyze_file, lines 675-678: the file is read and analyze_code is entered
\* with the base name of the path
AnalyzeFileRead(path, content) ==
  /\ pc = "idle"
  /\ filepath' = Str(path)
  /\ code' = content
  /\ filename' = Str(basename(path))
  /\ pc' = "start"
  /\ UNCHANGED << tables, locals, result, memo, peer >>

\* variant: only the failure of open() is caught (except OSError), so the
\* decoding error of read() reaches the caller of analyze_file
AnalyzeFileErrorOSErrorOnly(path, message) ==
  /\ pc = "idle"
  /\ filepath' = Str(path)
  /\ IF message = "invalid start byte"
     THEN /\ pc' = "raised"
          /\ UNCHANGED result
     ELSE /\ result' = DetectionResult("unknown", 0, None,
                                       << Line("Error reading file", << message >>, 0) >>)
          /\ pc' = "done"
  /\ UNCHANGED << tables, locals, code, filename, memo, peer >>

\* variant: the failure is reported under a language name of its own
AnalyzeFileErrorLanguage(path, message) ==
  /\ pc = "idle"
  /\ filepath' = Str(path)
  /\ result' = DetectionResult("error", 0, None,
                               << Line("Error reading file", << message >>, 0) >>)
  /\ pc' = "done"
  /\ UNCHANGED << tables, locals, code, filename, memo, peer >>

\* analyze_file, lines 679-680: open() or read() raised
AnalyzeFileError(path, message) ==
  /\ pc = "idle"
  /\ filepath' = Str(path)
  /\ result' = DetectionResult("unknown", 0, None,
                               << Line("Error reading file", << message >>, 0) >>)
  /\ pc' = "done"
  /\ UNCHANGED << tables, locals, code, filename, memo, peer >>

\* analyze_code, lines 532-542
Start ==
  /\ pc = "start"
  /\ IF strip(code) = << >>
     THEN /\ result' = EmptyCode
          /\ pc' = "done"
          /\ UNCHANGED locals
     ELSE /\ extension_hint' = ExtensionHint(file_extensions, filename)
          /\ language_scores' = EmptyDict
          /\ language_evidence' = EmptyDict
          /\ lang_idx' = 1
          /\ pc' = "score"
          /\ UNCHANGED << best_language, confidence, framework_scores,
                          framework_evidence, fw_idx, result >>
  /\ UNCHANGED << tables, filepath, code, filename, memo, peer >>

\* variant: the loop scores a language and stays at it
ScoreLanguageNoAdvance ==
  /\ pc = "score"
  /\ ~Raises(language_patterns[lang_idx].patterns \o language_patterns[lang_idx].anti_patterns)
  /\ LET acc == ScoreOneLanguage([scores |-> language_scores, evidence |-> language_evidence],
                                 code, language_patterns[lang_idx])
     IN  /\ language_scores' = acc.scores
         /\ language_evidence' = acc.evidence
  /\ UNCHANGED << tables, filepath, code, filename, extension_hint, lang_idx, pc, best_language,
                  confidence, framework_scores, framework_evidence, fw_idx, result, memo, peer >>

\* analyze_code, lines 544-548: one iteration of the loop
ScoreLanguage ==
  /\ pc = "score"
  /\ ~Raises(language_patterns[lang_idx].patterns \o language_patterns[lang_idx].anti_patterns)
  /\ LET acc == ScoreOneLanguage([scores |-> language_scores, evidence |-> language_evidence],
                                 code, language_patterns[lang_idx])
     IN  /\ language_scores' = acc.scores
         /\ language_evidence' = acc.evidence
  /\ lang_idx' = lang_idx + 1
  /\ pc' = IF lang_idx = Len(language_patterns) THEN "hint" ELSE "score"
  /\ UNCHANGED << tables, filepath, code, filename, extension_hint, best_language,
                  confidence, framework_scores, framework_evidence, fw_idx, result, memo, peer >>

\* variant: the bonus is also written into the weight of the language table
ApplyHintPersisted ==
  /\ pc = "hint"
  /\ LET acc == ApplyExtensionHint([scores |-> language_scores, evidence |-> language_evidence],
                                   extension_hint, filename)
     IN  /\ language_scores' = acc.scores
         /\ language_evidence' = acc.evidence
  /\ language_patterns' =
       [k \in 1..Len(language_patterns) |->
          IF language_patterns[k].name = extension_hint /\ Has(language_scores, extension_hint)
          THEN [language_patterns[k] EXCEPT !.weight = Mul(@, HintFactor)]
          ELSE language_patterns[k]]
  /\ pc' = "select"
  /\ UNCHANGED << framework_patterns, file_extensions, filepath, code, filename,
                  extension_hint, lang_idx, best_language, confidence, framework_scores,
                  framework_evidence, fw_idx, result, memo, peer >>

\* analyze_code, lines 551-553
ApplyHint ==
  /\ pc = "hint"
  /\ LET acc == ApplyExtensionHint([scores |-> language_scores, evidence |-> language_evidence],
                                   extension_hint, filename)
     IN  /\ language_scores' = acc.scores
         /\ language_evidence' = acc.evidence
  /\ pc' = "select"
  /\ UNCHANGED << tables, filepath, code, filename, extension_hint, lang_idx, best_language,
                  confidence, framework_scores, framework_evidence, fw_idx, result, memo, peer >>

\* variant: the winner is moved to the front of the language table, to be
\* scored first by the next call
SelectLanguageMoveToFront ==
  /\ pc = "select"
  /\ IF language_scores = EmptyDict
     THEN /\ result' = NoPatternsMatched
          /\ pc' = "done"
          /\ UNCHANGED << language_patterns, best_language, confidence, framework_scores,
                          framework_evidence, fw_idx >>
     ELSE /\ best_language' = BestLanguage(language_scores)
          /\ confidence' = LanguageConfidence(language_scores)
          /\ language_patterns' =
               SelectSeq(language_patterns, LAMBDA e : e.name = BestLanguage(language_scores))
               \o SelectSeq(language_patterns, LAMBDA e : e.name # BestLanguage(language_scores))
          /\ framework_scores' = EmptyDict
          /\ framework_evidence' = EmptyDict
          /\ fw_idx' = 1
          /\ pc' = "framework"
          /\ UNCHANGED result
  /\ UNCHANGED << framework_patterns, file_extensions, filepath, code, filename,
                  extension_hint, language_scores, language_evidence, lang_idx, memo, peer >>

\* analyze_code, lines 556-560, and the entry of _detect_framework, 628-629
SelectLanguage ==
  /\ pc = "select"
  /\ IF language_scores = EmptyDict
     THEN /\ result' = NoPatternsMatched
          /\ pc' = "done"
          /\ UNCHANGED << best_language, confidence, framework_scores,
                          framework_evidence, fw_idx >>
     ELSE /\ best_language' = BestLanguage(language_scores)
          /\ confidence' = LanguageConfidence(language_scores)
          /\ framework_scores' = EmptyDict
          /\ framework_evidence' = EmptyDict
          /\ fw_idx' = 1
          /\ pc' = "framework"
          /\ UNCHANGED result
  /\ UNCHANGED << tables, filepath, code, filename, extension_hint, language_scores,
                  language_evidence, lang_idx, memo, peer >>

\* _detect_framework, lines 631-655: one iteration of the loop
ScoreFramework ==
  /\ pc = "framework"
  /\ ~(/\ framework_patterns[fw_idx].language = best_language
       /\ Raises(framework_patterns[fw_idx].patterns))
  /\ LET acc == ScoreOneFramework([scores |-> framework_scores, evidence |-> framework_evidence],
                                  code, best_language, framework_patterns[fw_idx])
     IN  /\ framework_scores' = acc.scores
         /\ framework_evidence' = acc.evidence
  /\ fw_idx' = fw_idx + 1
  /\ pc' = IF fw_idx = Len(framework_patterns) THEN "fuse" ELSE "framework"
  /\ UNCHANGED << tables, filepath, code, filename, extension_hint, language_scores,
                  language_evidence, lang_idx, best_language, confidence, result, memo, peer >>

\* _detect_framework, lines 657-663, and analyze_code, lines 567-581
Finish ==
  /\ pc = "fuse"
  /\ result' = Fuse(best_language, confidence, language_evidence,
                    _detect_framework_result(framework_scores, framework_evidence))
  /\ confidence' = result'.confidence
  /\ pc' = "done"
  /\ UNCHANGED << tables, filepath, code, filename, extension_hint, language_scores,
                  language_evidence, lang_idx, best_language, framework_scores,
                  framework_evidence, fw_idx, memo, peer >>

\* the call returns: its frame is gone, and the caller has the result.  The
\* history remembers the first probe call, and whether a call with other
\* arguments has returned since.
Return ==
  /\ pc = "done"
  /\ memo' = IF memo.set
             THEN [memo EXCEPT !.between = @ \/ code # memo.code \/ filename # memo.filename]
             ELSE IF [code |-> code, filename |-> filename] \in Probes
                  THEN [set |-> TRUE, code |-> code, filename |-> filename,
                        result |-> result, between |-> FALSE, raised |-> memo.raised]
                  ELSE memo
  /\ pc' = "idle"
  /\ filepath' = NoFilename
  /\ code' = << >>
  /\ filename' = NoFilename
  /\ extension_hint' = None
  /\ language_scores' = EmptyDict
  /\ language_evidence' = EmptyDict
  /\ lang_idx' = 0
  /\ best_language' = None
  /\ confidence' = 0
  /\ framework_scores' = EmptyDict
  /\ framework_evidence' = EmptyDict
  /\ fw_idx' = 0
  /\ result' = NoResult
  /\ UNCHANGED << tables, peer >>

\* variant: analyze_file catches nothing that analyze_code raises
RaiseReErrorUncaught ==
  /\ IF pc = "score"
     THEN Raises(language_patterns[lang_idx].patterns \o language_patterns[lang_idx].anti_patterns)
     ELSE /\ pc = "framework"
          /\ framework_patterns[fw_idx].language = best_language
          /\ Raises(framework_patterns[fw_idx].patterns)
  /\ pc' = "raised"
  /\ UNCHANGED << tables, filepath, code, filename, locals, result, memo, peer >>

\* re.findall raises re.error in _score_language (lines 599, 613) or in
\* _detect_framework (line 640).  analyze_code catches nothing, so the error
\* reaches its caller; when that is analyze_file, line 679 catches it.
RaiseReError ==
  /\ IF pc = "score"
     THEN Raises(language_patterns[lang_idx].patterns \o language_patterns[lang_idx].anti_patterns)
     ELSE /\ pc = "framework"
          /\ framework_patterns[fw_idx].language = best_language
          /\ Raises(framework_patterns[fw_idx].patterns)
  /\ IF filepath.given
     THEN /\ result' = DetectionResult("unknown", 0, None,
                                       << Line("Error reading file", << re_error >>, 0) >>)
          /\ pc' = "done"
     ELSE /\ pc' = "raised"
          /\ UNCHANGED result
  /\ UNCHANGED << tables, filepath, code, filename, locals, memo, peer >>

\* the error leaves analyze_code: its frame is gone, and the caller has the
\* exception instead of a result, which the history notes
Unwind ==
  /\ pc = "raised"
  /\ memo' = [memo EXCEPT !.raised = TRUE]
  /\ pc' = "idle"
  /\ filepath' = NoFilename
  /\ code' = << >>
  /\ filename' = NoFilename
  /\ extension_hint' = None
  /\ language_scores' = EmptyDict
  /\ language_evidence' = EmptyDict
  /\ lang_idx' = 0
  /\ best_language' = None
  /\ confidence' = 0
  /\ framework_scores' = EmptyDict
  /\ framework_evidence' = EmptyDict
  /\ fw_idx' = 0
  /\ UNCHANGED << tables, result, peer >>

Next ==
  \/ \E text \in Texts, name \in Filenames : CallAnalyzeCode(text, name)
  \/ \E path \in Paths, content \in Texts : AnalyzeFileRead(path, content)
  \/ \E path \in Paths, message \in ErrorMessages : AnalyzeFileError(path, message)
  \/ Start
  \/ ScoreLanguage
  \/ ApplyHint
  \/ SelectLanguage
  \/ ScoreFramework
  \/ Finish
  \/ Return

Spec == Init /\ [][Next]_vars

(***************************************************************************)
(* Two threads call analyze_code on the same GuessLexer.  The second       *)
(* thread's call has its frame in peer; its steps are the steps above, on  *)
(* that frame, and interleave with those of the first thread.              *)
(***************************************************************************)
ConcurrentCalls ==
  { [code |-> << "from django", "urlpatterns = [HttpResponse]" >>,
     filename |-> Str(<< "q", ".", "s", "q", "l" >>)],
    [code |-> << "def hello():" >>, filename |-> Str(<< "x", ".", "p", "y" >>)] }

InFlight == pc \in {"score", "hint", "select", "framework", "fuse"}

PeerCall(text, name) ==
  /\ peer.pc = "idle"
  /\ peer' = [IdleFrame EXCEPT !.pc = "start", !.code = text, !.filename = name,
                               !.returned = peer.returned]
  /\ UNCHANGED << tables, frame, memo >>

\* lines 532-542
PeerStart ==
  /\ peer.pc = "start"
  /\ peer' = IF strip(peer.code) = << >>
             THEN [peer EXCEPT !.result = EmptyCode, !.pc = "done"]
             ELSE [peer EXCEPT !.extension_hint = ExtensionHint(file_extensions, peer.filename),
                               !.language_scores = EmptyDict,
                               !.language_evidence = EmptyDict,
                               !.lang_idx = 1,
                               !.pc = "score"]
  /\ UNCHANGED << tables, frame, memo >>

\* variant: the score map and the evidence map are attributes of the engine,
\* which the two calls share
PeerScoreLanguageShared ==
  /\ peer.pc = "score"
  /\ LET acc == ScoreOneLanguage([scores |-> language_scores, evidence |-> language_evidence],
                                 peer.code, language_patterns[peer.lang_idx])
     IN  /\ language_scores' = acc.scores
         /\ language_evidence' = acc.evidence
  /\ peer' = [peer EXCEPT !.lang_idx = @ + 1,
                          !.pc = IF peer.lang_idx = Len(language_patterns)
                                 THEN "hint" ELSE "score",
                          !.overlapped = @ \/ InFlight]
  /\ UNCHANGED << tables, pc, filepath, code, filename, extension_hint, lang_idx,
                  best_language, confidence, framework_scores, framework_evidence, fw_idx,
                  result, memo >>

\* lines 544-548: one iteration of the loop
PeerScoreLanguage ==
  /\ peer.pc = "score"
  /\ LET acc == ScoreOneLanguage([scores |-> peer.language_scores,
                                  evidence |-> peer.language_evidence],
                                 peer.code, language_patterns[peer.lang_idx])
     IN  peer' = [peer EXCEPT !.language_scores = acc.scores,
                              !.language_evidence = acc.evidence,
                              !.lang_idx = @ + 1,
                              !.pc = IF peer.lang_idx = Len(language_patterns)
                                     THEN "hint" ELSE "score",
                              !.overlapped = @ \/ InFlight]
  /\ UNCHANGED << tables, frame, memo >>

\* lines 551-553
PeerApplyHint ==
  /\ peer.pc = "hint"
  /\ LET acc == ApplyExtensionHint([scores |-> peer.language_scores,
                                    evidence |-> peer.language_evidence],
                                   peer.extension_hint, peer.filename)
     IN  peer' = [peer EXCEPT !.language_scores = acc.scores,
                              !.language_evidence = acc.evidence,
                              !.pc = "select"]
  /\ UNCHANGED << tables, frame, memo >>

\* lines 556-560 and 628-629
PeerSelectLanguage ==
  /\ peer.pc = "select"
  /\ peer' = IF peer.language_scores = EmptyDict
             THEN [peer EXCEPT !.result = NoPatternsMatched, !.pc = "done"]
             ELSE [peer EXCEPT !.best_language = BestLanguage(peer.language_scores),
                               !.confidence = LanguageConfidence(peer.language_scores),
                               !.framework_scores = EmptyDict,
                               !.framework_evidence = EmptyDict,
                               !.fw_idx = 1,
                               !.pc = "framework"]
  /\ UNCHANGED << tables, frame, memo >>

\* lines 631-655: one iteration of the loop
PeerScoreFramework ==
  /\ peer.pc = "framework"
  /\ LET acc == ScoreOneFramework([scores |-> peer.framework_scores,
                                   evidence |-> peer.framework_evidence],
                                  peer.code, peer.best_language,
                                  framework_patterns[peer.fw_idx])
     IN  peer' = [peer EXCEPT !.framework_scores = acc.scores,
                              !.framework_evidence = acc.evidence,
                              !.fw_idx = @ + 1,
                              !.pc = IF peer.fw_idx = Len(framework_patterns)
                                     THEN "fuse" ELSE "framework"]
  /\ UNCHANGED << tables, frame, memo >>

\* lines 657-663 and 567-581
PeerFinish ==
  /\ peer.pc = "fuse"
  /\ LET r == Fuse(peer.best_language, peer.confidence, peer.language_evidence,
                   _detect_framework_result(peer.framework_scores, peer.framework_evidence))
     IN  peer' = [peer EXCEPT !.result = r, !.confidence = r.confidence, !.pc = "done"]
  /\ UNCHANGED << tables, frame, memo >>

\* the second thread's call returns
PeerReturn ==
  /\ peer.pc = "done"
  /\ peer' = [IdleFrame EXCEPT !.returned = TRUE]
  /\ UNCHANGED << tables, frame, memo >>

NextConcurrent ==
  \/ \E c \in ConcurrentCalls : CallAnalyzeCode(c.code, c.filename)
  \/ Start
  \/ ScoreLanguage
  \/ ApplyHint
  \/ SelectLanguage
  \/ ScoreFramework
  \/ Finish
  \/ Return
  \/ \E c \in ConcurrentCalls : PeerCall(c.code, c.filename)
  \/ PeerStart
  \/ PeerScoreLanguage
  \/ PeerApplyHint
  \/ PeerSelectLanguage
  \/ PeerScoreFramework
  \/ PeerFinish
  \/ PeerReturn

SpecConcurrent == Init /\ [][NextConcurrent]_vars

(***************************************************************************)
(* The engine built over a framework table with a configuration defect:    *)
(* one rule of the flask entry is a malformed regex                        *)
(***************************************************************************)
BrokenFrameworkPatterns ==
  [k \in 1..Len(_initialize_framework_patterns) |->
     IF _initialize_framework_patterns[k].name = "flask"
     THEN [_initialize_framework_patterns[k] EXCEPT !.patterns = Append(@, "(")]
     ELSE _initialize_framework_patterns[k]]

\* before GuessLexer() is called
InitConfig ==
  /\ language_patterns = << >>
  /\ framework_patterns = << >>
  /\ file_extensions = << >>
  /\ pc = "new"
  /\ filepath = NoFilename
  /\ code = << >>
  /\ filename = NoFilename
  /\ extension_hint = None
  /\ language_scores = EmptyDict
  /\ language_evidence = EmptyDict
  /\ lang_idx = 0
  /\ best_language = None
  /\ confidence = 0
  /\ framework_scores = EmptyDict
  /\ framework_evidence = EmptyDict
  /\ fw_idx = 0
  /\ result = NoResult
  /\ memo = NoMemo
  /\ peer = IdleFrame

\* GuessLexer.__init__, lines 34-37: the three attributes are assigned what
\* the initializers return, whose rules are strings; no rule is compiled
Construct(frameworks) ==
  /\ pc = "new"
  /\ language_patterns' = _initialize_patterns
  /\ framework_patterns' = frameworks
  /\ file_extensions' = _initialize_extensions
  /\ pc' = "idle"
  /\ UNCHANGED << filepath, code, filename, locals, result, memo, peer >>

NextConfig ==
  \/ Construct(BrokenFrameworkPatterns)
  \/ \E text \in Texts, name \in Filenames : CallAnalyzeCode(text, name)
  \/ \E path \in Paths, content \in Texts : AnalyzeFileRead(path, content)
  \/ \E path \in Paths, message \in ErrorMessages : AnalyzeFileError(path, message)
  \/ Start
  \/ ScoreLanguage
  \/ ApplyHint
  \/ SelectLanguage
  \/ ScoreFramework
  \/ RaiseReError
  \/ Finish
  \/ Return
  \/ Unwind

SpecConfig == InitConfig /\ [][NextConfig]_vars

(***************************************************************************)
(* Properties                                                              *)
(***************************************************************************)
\* a call has produced its result and has not returned yet
Returned == pc = "done"

\* the result comes from analyze_code (called directly or by analyze_file),
\* not from the except branch of analyze_file
FromAnalyzeCode == Returned /\ ~(filepath.given /\ ~filename.given)

\* the text is empty or has whitespace only
Blank(text) == \A k \in 1..Len(text) : text[k] \in WhitespaceLines

\* GuessLexer.get_supported_languages
get_supported_languages == [k \in 1..Len(language_patterns) |-> language_patterns[k].name]

LanguageEntry(lang) ==
  language_patterns[CHOOSE k \in 1..Len(language_patterns) : language_patterns[k].name = lang]

\* what the scorer gives a language on the text of the call
RawScore(lang) == _score_language(code, LanguageEntry(lang)).score

\* the language the extension of the filename of the call maps to
Hint == ExtensionHint(file_extensions, filename)

\* what analyze_code returns for the text of the call without a filename
WithoutFilename ==
  analyze_code(language_patterns, framework_patterns, file_extensions, code, NoFilename)

\* C1: every result of analyze_code has a confidence between 0 and 1, with or
\* without the hint multiplier and the framework bonus.
C1_ConfidenceInRange ==
  FromAnalyzeCode => (0 <= result.confidence /\ result.confidence <= One)

\* the hinted winner scores above 1 and a framework bonus is added on top
C1_Witness ==
  /\ FromAnalyzeCode
  /\ Has(language_scores, extension_hint)
  /\ best_language = extension_hint
  /\ Get(language_scores, best_language) > One
  /\ result.framework # None
  /\ result.confidence = One

\* C2: a text that is empty or whitespace only yields "unknown", confidence 0,
\* no framework and the single evidence line "Empty code", whatever the
\* filename, and no language and no framework is scored.
C2_EmptyCode ==
  (FromAnalyzeCode /\ Blank(code)) =>
     /\ result.language = "unknown"
     /\ result.confidence = 0
     /\ result.framework = None
     /\ result.evidence = << Plain("Empty code") >>
     /\ lang_idx = 0 /\ language_scores = EmptyDict
     /\ fw_idx = 0 /\ framework_scores = EmptyDict

\* a whitespace-only text analyzed with a filename whose extension is mapped
C2_Witness ==
  /\ FromAnalyzeCode
  /\ code # << >> /\ Blank(code)
  /\ Hint # None
  /\ result = EmptyCode

\* C3: a result carries a framework only if the framework table declares the
\* returned language as its owner; an "unknown" result carries none.
C3_FrameworkOwner ==
  Returned =>
     /\ result.framework # None =>
          \E k \in 1..Len(framework_patterns) :
             /\ framework_patterns[k].name = result.framework
             /\ framework_patterns[k].language = result.language
     /\ result.language = "unknown" => result.framework = None

\* a framework has been detected for the winning language
C3_Witness ==
  /\ FromAnalyzeCode
  /\ result.framework # None
  /\ Has(framework_scores, result.framework)

\* C4: a call with the arguments of an earlier call returns the result of the
\* earlier call, whatever calls were made in between.
C4_Determinism ==
  (FromAnalyzeCode /\ memo.set /\ memo.code = code /\ memo.filename = filename)
     => result = memo.result

\* a remembered call is repeated after a call with other arguments
C4_Witness ==
  /\ FromAnalyzeCode
  /\ memo.set /\ memo.between
  /\ memo.code = code /\ memo.filename = filename
  /\ result.language # "unknown"

\* C5 as stated: when the extension maps to a language that scores above 0,
\* the confidence is at least the confidence without a filename.
C5_HintMonotone_Original ==
  (FromAnalyzeCode /\ Hint # None /\ RawScore(Hint) > 0)
     => result.confidence >= WithoutFilename.confidence

\* C5: when the extension maps to a language that scores above 0, the
\* confidence is at least the confidence without a filename, provided the
\* returned language is the one returned without a filename or no framework
\* is detected without a filename.
C5_HintMonotone ==
  (/\ FromAnalyzeCode /\ Hint # None /\ RawScore(Hint) > 0
   /\ \/ WithoutFilename.language = result.language
      \/ WithoutFilename.framework = None)
     => result.confidence >= WithoutFilename.confidence

\* the hint makes its language the winner over the winner without a filename
C5_Witness ==
  /\ FromAnalyzeCode /\ Hint # None /\ RawScore(Hint) > 0
  /\ result.language = Hint
  /\ WithoutFilename.language # Hint
  /\ WithoutFilename.framework = None

\* C6: when the extension maps to L, L scores S > 0 and another language
\* scores more than 1.5 x S, the returned language is not L.
C6_StrongerLanguageKept ==
  (/\ FromAnalyzeCode /\ Hint # None /\ RawScore(Hint) > 0
   /\ \E k \in 1..Len(language_patterns) :
         /\ language_patterns[k].name # Hint
         /\ RawScore(language_patterns[k].name) > Mul(RawScore(Hint), HintFactor))
     => result.language # Hint

\* the hinted language is in the score map with its bonus and another
\* language had more than 1.5 times its score
C6_Witness ==
  /\ FromAnalyzeCode /\ Hint # None /\ RawScore(Hint) > 0
  /\ Has(language_scores, Hint)
  /\ Get(language_scores, Hint) > RawScore(Hint)
  /\ RawScore(result.language) > Mul(RawScore(Hint), HintFactor)

\* C7: when the extension maps to a language that scores 0, that language is
\* not returned and the result is the result without a filename.
C7_HintIsNoOverride ==
  (FromAnalyzeCode /\ Hint # None /\ RawScore(Hint) = 0)
     => (result.language # Hint /\ result = WithoutFilename)

\* the hinted language has matches but its penalties floor its score to 0,
\* and another language wins
C7_Witness ==
  /\ FromAnalyzeCode /\ Hint # None /\ RawScore(Hint) = 0
  /\ \E e \in 1..Len(_score_language(code, LanguageEntry(Hint)).evidence) :
        _score_language(code, LanguageEntry(Hint)).evidence[e].kind = "Keyword found"
  /\ result.language # "unknown"

\* C8: a text that is not blank and on which every language scores 0 yields
\* "unknown", confidence 0, no framework and the single evidence line
\* "No patterns matched", with or without a filename; no framework is scored.
C8_NoPatternsMatched ==
  (/\ FromAnalyzeCode /\ ~Blank(code)
   /\ \A k \in 1..Len(language_patterns) : RawScore(language_patterns[k].name) = 0)
     => /\ result.language = "unknown"
        /\ result.confidence = 0
        /\ result.framework = None
        /\ result.evidence = << Plain("No patterns matched") >>
        /\ fw_idx = 0 /\ framework_scores = EmptyDict

\* a text without any match analyzed with a filename whose extension is mapped
C8_Witness ==
  /\ FromAnalyzeCode /\ ~Blank(code)
  /\ \A k \in 1..Len(language_patterns) : RawScore(language_patterns[k].name) = 0
  /\ Hint # None
  /\ lang_idx = Len(language_patterns) + 1

\* C9: a result that names a language has at least one evidence line.
C9_EvidenceNonEmpty ==
  (FromAnalyzeCode /\ result.language # "unknown") => result.evidence # << >>

\* a language wins on a single pattern hit, without hint and framework
C9_Witness ==
  /\ FromAnalyzeCode /\ result.language # "unknown"
  /\ Len(result.evidence) = 1
  /\ result.evidence[1].kind = "Pattern match"

\* C10: the language of every result of analyze_code and of analyze_file is
\* "unknown" or one of the names get_supported_languages returns.
C10_LanguageRegistered ==
  Returned =>
     \/ result.language = "unknown"
     \/ \E k \in 1..Len(get_supported_languages) : get_supported_languages[k] = result.language

\* analyze_file returns a registered language for a file it could read
C10_Witness ==
  /\ Returned /\ filepath.given /\ filename.given
  /\ \E k \in 1..Len(get_supported_languages) : get_supported_languages[k] = result.language

\* the tables as the three initializers return them
InitialTables ==
  << _initialize_patterns, _initialize_framework_patterns, _initialize_extensions >>

\* analyze_file has taken its except branch: the read failed
ReadFailed == filepath.given /\ ~filename.given

\* C11: when the file cannot be opened, read or decoded, analyze_file raises
\* nothing to its caller and returns "unknown", confidence 0, no framework and
\* the single evidence line "Error reading file: <message>"; the tables are
\* as they were constructed.
C11_ReadFailure ==
  /\ (pc = "raised") => ~filepath.given
  /\ ReadFailed =>
       /\ Returned
       /\ \E message \in ErrorMessages :
             result = DetectionResult("unknown", 0, None,
                                      << Line("Error reading file", << message >>, 0) >>)
       /\ tables = InitialTables

\* the read fails on the decoding, after an earlier call has returned
C11_Witness ==
  /\ Returned /\ ReadFailed
  /\ result.evidence = << Line("Error reading file", << "invalid start byte" >>, 0) >>
  /\ memo.set

\* a rule of the language table or of the framework table is malformed
BrokenRule ==
  \/ \E k \in 1..Len(language_patterns) :
        Raises(language_patterns[k].patterns \o language_patterns[k].anti_patterns)
  \/ \E k \in 1..Len(framework_patterns) : Raises(framework_patterns[k].patterns)

\* C12: with a malformed rule in a table the engine is never constructed, so
\* no call starts and no error comes out of an analysis.
C12_MalformedRuleIsFatalAtInit ==
  BrokenRule => pc = "new"

\* what analyze_code returns for the arguments of the call on an engine that
\* has served no call
OnFreshEngine ==
  analyze_code(_initialize_patterns, _initialize_framework_patterns, _initialize_extensions,
               code, filename)

\* C13: whatever calls were made, the three tables are as they were
\* constructed, and a call returns what a fresh engine returns for its
\* arguments.
C13_TablesAndResultsKeepNoHistory ==
  /\ tables = InitialTables
  /\ FromAnalyzeCode => result = OnFreshEngine

\* a call returns a language and a framework after two earlier calls with
\* other arguments
C13_Witness ==
  /\ FromAnalyzeCode
  /\ memo.set /\ memo.between /\ memo.code # code
  /\ result.framework # None
  /\ tables = InitialTables

\* what the second thread's call returns when it runs alone
PeerAlone ==
  analyze_code(_initialize_patterns, _initialize_framework_patterns, _initialize_extensions,
               peer.code, peer.filename)

\* C14: under every interleaving of the steps of two calls, each call returns
\* what it returns when it runs alone, and the tables are only read.
C14_ConcurrentCallsIndependent ==
  /\ tables = InitialTables
  /\ Returned => result = OnFreshEngine
  /\ peer.pc = "done" => peer.result = PeerAlone

\* both calls have their results, for different arguments, and the second
\* call scored languages while the first was in flight
C14_Witness ==
  /\ Returned /\ peer.pc = "done"
  /\ peer.overlapped
  /\ result.language # "unknown" /\ peer.result.language # "unknown"
  /\ result.language # peer.result.language

\* analyze_file has read the file and its result comes from analyze_code
FileRead == Returned /\ filepath.given /\ filename.given

\* the part of the path of the call after its last "/"
BaseName == Str(basename(filepath.name))

\* C15: for a file that could be read, analyze_file returns what analyze_code
\* returns for the content and the base name of the path; the name the hint
\* is taken from has no directory part.
C15_FileAsCodeWithBaseName ==
  FileRead =>
     /\ result = analyze_code(language_patterns, framework_patterns, file_extensions,
                              code, BaseName)
     /\ \A k \in 1..Len(filename.name) : filename.name[k] # "/"
     /\ extension_hint \in {None, ExtensionHint(file_extensions, BaseName)}

\* a file under a directory is returned with the language of its extension,
\* and the hint line shows the base name
C15_Witness ==
  /\ FileRead
  /\ Len(basename(filepath.name)) < Len(filepath.name)
  /\ result.language = extension_hint
  /\ \E e \in 1..Len(result.evidence) :
        result.evidence[e] = Line("File extension hint", << "q", ".", "s", "q", "l" >>, 0)

\* C16: scenario 1, the text HelloScript analyzed with the filename "x.py", is
\* returned as python with a confidence above 0.5 and without a framework.
C16_Scenario1 ==
  (FromAnalyzeCode /\ code = << HelloScript >> /\ filename = Str(<< "x", ".", "p", "y" >>))
     => /\ result.language = "python"
        /\ result.confidence > One \div 2
        /\ result.framework = None

\* the call of scenario 1 has returned, python having won over the other
\* languages that score on the text
C16_Witness ==
  /\ FromAnalyzeCode /\ code = << HelloScript >> /\ filename = Str(<< "x", ".", "p", "y" >>)
  /\ Len(language_scores) > 1
  /\ extension_hint = "python"
  /\ result.confidence = One

\* C17 as stated: the code of the "Django Model" test case is returned as
\* python with the framework django.
C17_Scenario6_Original ==
  (FromAnalyzeCode /\ code = << DjangoModel >>)
     => (result.language = "python" /\ result.framework = "django")

\* C17: the code of the "Django Model" test case, analyzed with the filename
\* "models.py" of that test case, is returned as python with the framework
\* django.
C17_Scenario6 ==
  (/\ FromAnalyzeCode /\ code = << DjangoModel >>
   /\ filename = Str(<< "m", "o", "d", "e", "l", "s", ".", "p", "y" >>))
     => (result.language = "python" /\ result.framework = "django")

\* the call of the test case has returned; python won by its hint over a
\* language with a higher score
C17_Witness ==
  /\ FromAnalyzeCode /\ code = << DjangoModel >>
  /\ filename = Str(<< "m", "o", "d", "e", "l", "s", ".", "p", "y" >>)
  /\ result.framework = "django"
  /\ \E k \in 1..Len(language_patterns) :
        RawScore(language_patterns[k].name) > RawScore("python")

\* the total number of matches of a list of regexes in a text, counted piece
\* by piece
TotalMatches(rules, text) ==
  Sum([i \in 1..Len(text) |->
         Sum([j \in 1..Len(rules) |-> MatchCount(rules[j], text[i])])])

\* the number of keywords of a list that occur in a text
KeywordsPresent(keywords, text) ==
  Cardinality({j \in 1..Len(keywords) :
                 \E i \in 1..Len(text) : keywords[j] \in KeywordTable[text[i]]})

\* max(0, (pattern_matches * 0.6 + keyword_matches * 0.4) * weight
\*          - anti_matches * 0.3) for a language entry and the text of the call
FormulaScore(entry) ==
  LET base == ((TotalMatches(entry.patterns, code) * 6000
                  + KeywordsPresent(entry.keywords, code) * 4000) * entry.weight) \div 10000
      penalty == TotalMatches(entry.anti_patterns, code) * 3000
  IN  IF base - penalty > 0 THEN base - penalty ELSE 0

\* the languages scored so far have their scores as the scorer returned them
Scoring == pc \in {"score", "hint"}

\* C18: the score of every language scored is the value of the formula; it
\* is in the score map when it is positive.
C18_ScoreFormula ==
  Scoring =>
     \A k \in 1..(lang_idx - 1) :
        LET entry == language_patterns[k]
        IN  /\ Has(language_scores, entry.name) =>
                  Get(language_scores, entry.name) = FormulaScore(entry)
            /\ ~Has(language_scores, entry.name) => FormulaScore(entry) = 0

\* a language with a weight other than 1 has been scored on pattern hits,
\* and another on keywords less a penalty
C18_Witness ==
  /\ pc = "hint"
  /\ \E k \in 1..Len(language_patterns) :
        /\ language_patterns[k].weight # One
        /\ TotalMatches(language_patterns[k].patterns, code) > 0
        /\ Has(language_scores, language_patterns[k].name)
  /\ \E k \in 1..Len(language_patterns) :
        /\ KeywordsPresent(language_patterns[k].keywords, code) > 1
        /\ TotalMatches(language_patterns[k].anti_patterns, code) > 0
        /\ Has(language_scores, language_patterns[k].name)

\* the language has pattern or keyword matches on the text of the call
HasMatches(lang) ==
  \/ TotalMatches(LanguageEntry(lang).patterns, code) > 0
  \/ KeywordsPresent(LanguageEntry(lang).keywords, code) > 0

\* C19: no score is negative; a language whose score is 0, with or without
\* matches, is not in the score map, so it is not compared and not returned.
C19_FlooredScoreIsNoCandidate ==
  /\ \A k \in 1..Len(language_scores) : language_scores[k].value > 0
  /\ FromAnalyzeCode =>
       \A k \in 1..Len(language_patterns) :
          LET lang  == language_patterns[k].name
              score == RawScore(lang)
          IN  /\ score >= 0
              /\ score = 0 =>
                    /\ ~Has(language_scores, lang)
                    /\ best_language # lang
                    /\ result.language # lang

\* a language has matches that its penalties cancel, and another language is
\* returned
C19_Witness ==
  /\ FromAnalyzeCode /\ result.language # "unknown"
  /\ \E k \in 1..Len(language_patterns) :
        /\ HasMatches(language_patterns[k].name)
        /\ RawScore(language_patterns[k].name) = 0
        /\ ~Has(language_scores, language_patterns[k].name)

\* the scores of the languages, in table order, on the text of the call,
\* the score of the hinted language multiplied by 1.5
FinalScores ==
  [k \in 1..Len(language_patterns) |->
     LET score == RawScore(language_patterns[k].name)
     IN  IF language_patterns[k].name = Hint THEN (score * 15000) \div 10000 ELSE score]

\* C20: the returned language has a positive score that no language exceeds
\* after the hint multiplier, and that no language earlier in the language
\* table equals.
C20_MaximalFirstInTableOrder ==
  (FromAnalyzeCode /\ result.language # "unknown") =>
     LET final == FinalScores
     IN  \E w \in 1..Len(language_patterns) :
            /\ language_patterns[w].name = result.language
            /\ final[w] > 0
            /\ \A m \in 1..Len(language_patterns) : final[m] <= final[w]
            /\ \A m \in 1..(w - 1) : final[m] < final[w]

\* a later language of the table has the score of the returned one
C20_Witness ==
  /\ FromAnalyzeCode /\ result.language # "unknown"
  /\ Len(language_scores) > 1
  /\ \E m \in 1..Len(language_scores) :
        /\ language_scores[m].key # result.language
        /\ language_scores[m].value = Get(language_scores, result.language)

\* what the scorer returns for a language on the text of the call
Scored(lang) == _score_language(code, LanguageEntry(lang))

\* C21: before the selection, the language the filename's suffix maps to, if
\* it is in the score map, has 1.5 times its score and its evidence followed
\* by one line with the filename; every other language of the map has its
\* score and its evidence as scored; "X.PY" and "x.py" both map to python.
C21_HintAppliedOnce ==
  pc = "select" =>
     /\ filename \in {Str(<< "x", ".", "p", "y" >>), Str(<< "X", ".", "P", "Y" >>)}
           => extension_hint = "python"
     /\ \A k \in 1..Len(language_patterns) :
           LET lang == language_patterns[k].name
               r    == Scored(lang)
           IN  r.score > 0 =>
                 IF lang = extension_hint
                 THEN /\ Get(language_scores, lang) = (r.score * 15000) \div 10000
                      /\ Get(language_evidence, lang) =
                            Append(r.evidence, Line("File extension hint", filename.name, 0))
                 ELSE /\ Get(language_scores, lang) = r.score
                      /\ Get(language_evidence, lang) = r.evidence

\* the filename is "X.PY", python is in the score map and so is another
\* language
C21_Witness ==
  /\ pc = "select"
  /\ filename = Str(<< "X", ".", "P", "Y" >>)
  /\ Has(language_scores, "python")
  /\ Get(language_scores, "python") > Scored("python").score
  /\ Len(language_scores) > 1

\* (pattern_matches * 0.7 + keyword_matches * 0.3) * weight for a framework
\* entry and the text of the call
FrameworkFormulaScore(entry) ==
  ((TotalMatches(entry.patterns, code) * 7000
      + KeywordsPresent(entry.keywords, code) * 3000) * entry.weight) \div 10000

\* the frameworks of the winning language whose score is positive, by their
\* positions in the framework table
Candidates ==
  {k \in 1..Len(framework_patterns) :
     /\ framework_patterns[k].language = best_language
     /\ FrameworkFormulaScore(framework_patterns[k]) > 0}

\* the framework loop of the call is over
FrameworksScored == pc = "fuse" \/ (FromAnalyzeCode /\ result.language # "unknown")

\* C22: the framework score map holds exactly the frameworks of the winning
\* language whose score (pattern_matches * 0.7 + keyword_matches * 0.3) *
\* weight is positive, with that score; the framework returned is the first
\* of them, in table order, with the maximal score.
C22_FrameworkStage ==
  /\ FrameworksScored =>
       /\ Len(framework_scores) = Cardinality(Candidates)
       /\ \A k \in Candidates :
             /\ Has(framework_scores, framework_patterns[k].name)
             /\ Get(framework_scores, framework_patterns[k].name)
                  = FrameworkFormulaScore(framework_patterns[k])
  /\ (FromAnalyzeCode /\ result.language # "unknown") =>
       IF Candidates = {} THEN result.framework = None
       ELSE \E w \in Candidates :
              /\ result.framework = framework_patterns[w].name
              /\ \A m \in Candidates :
                    /\ FrameworkFormulaScore(framework_patterns[m])
                         <= FrameworkFormulaScore(framework_patterns[w])
                    /\ m < w => FrameworkFormulaScore(framework_patterns[m])
                                  < FrameworkFormulaScore(framework_patterns[w])

\* of two candidates the later one in the table has the greater score and
\* is returned
C22_Witness ==
  /\ FromAnalyzeCode /\ result.framework # None
  /\ \E w, m \in Candidates :
        /\ m < w
        /\ result.framework = framework_patterns[w].name
        /\ TotalMatches(framework_patterns[w].patterns, code) > 1

\* the score of the returned language after the hint multiplier
WinningScore ==
  LET score == RawScore(result.language)
  IN  IF result.language = Hint THEN (score * 15000) \div 10000 ELSE score

\* the raw score of the returned framework
BestFrameworkRawScore ==
  FrameworkFormulaScore(
    framework_patterns[CHOOSE k \in 1..Len(framework_patterns) :
                         framework_patterns[k].name = result.framework])

\* C23: with a framework in the result, the confidence is
\* min(min(winning_language_score, 1.0) + min(raw / 5.0, 1.0) * 0.3, 1.0);
\* it is not below the language-stage value and at most 0.3 above it.
C23_FusedConfidence ==
  (FromAnalyzeCode /\ result.framework # None) =>
     LET language_confidence  == min(WinningScore, 10000)
         framework_confidence == min((BestFrameworkRawScore * 10000) \div 50000, 10000)
     IN  /\ result.confidence
              = min(language_confidence + (framework_confidence * 3000) \div 10000, 10000)
         /\ result.confidence >= language_confidence
         /\ result.confidence <= language_confidence + 3000

\* the framework raises a confidence below 1 to a value that is still below 1
C23_Witness ==
  /\ FromAnalyzeCode /\ result.framework # None
  /\ result.confidence > min(WinningScore, 10000)
  /\ result.confidence < 10000

\* no framework of the returned language has a pattern match or a keyword
\* in the text of the call
NoFrameworkHit ==
  \A k \in 1..Len(framework_patterns) :
     framework_patterns[k].language = result.language =>
        /\ TotalMatches(framework_patterns[k].patterns, code) = 0
        /\ KeywordsPresent(framework_patterns[k].keywords, code) = 0

\* the evidence of the returned language: what the scorer found, followed by
\* the hint line when the filename maps to that language
WinningEvidence ==
  Scored(result.language).evidence
    \o (IF result.language = Hint
        THEN << Line("File extension hint", filename.name, 0) >>
        ELSE << >>)

\* C24: when no framework of the winning language has a pattern or keyword
\* hit (the language may own none), the result has no framework, confidence
\* min(winning_language_score, 1.0) and the winning language's evidence only.
C24_NoFramework ==
  (FromAnalyzeCode /\ result.language # "unknown" /\ NoFrameworkHit) =>
     /\ result.framework = None
     /\ result.confidence = min(WinningScore, 10000)
     /\ result.evidence = WinningEvidence

\* the winning language owns no framework while a framework of another
\* language has a hit in the text
C24_Witness ==
  /\ FromAnalyzeCode /\ result.language # "unknown"
  /\ \A k \in 1..Len(framework_patterns) : framework_patterns[k].language # result.language
  /\ \E k \in 1..Len(framework_patterns) :
        TotalMatches(framework_patterns[k].patterns, code) > 0
  /\ result.framework = None

\* the place of a kind of evidence line in the order of the claim
EvidenceRank(kind) ==
  CASE kind = "Pattern match"       -> 1
    [] kind = "Keyword found"       -> 2
    [] kind = "Anti-pattern found"  -> 3
    [] kind = "File extension hint" -> 4
    [] kind = "Framework pattern"   -> 5
    [] kind = "Framework keyword"   -> 6
    [] OTHER                        -> 0

\* the first position of an item in a list of the registry
TablePosition(list, item) ==
  CHOOSE k \in 1..Len(list) : list[k] = item /\ \A m \in 1..(k - 1) : list[m] # item

\* C25: in the evidence of a non-unknown result the lines come in the order
\* language patterns (in table order), language keywords, anti-patterns,
\* extension hint, framework patterns, framework keywords; so no framework
\* line precedes a language line.
C25_EvidenceOrder ==
  (FromAnalyzeCode /\ result.language # "unknown") =>
     LET evidence == result.evidence
         entry    == LanguageEntry(result.language)
     IN  /\ \A i \in 1..Len(evidence) : EvidenceRank(evidence[i].kind) > 0
         /\ \A i, j \in 1..Len(evidence) :
               i < j =>
                 /\ EvidenceRank(evidence[i].kind) <= EvidenceRank(evidence[j].kind)
                 /\ (evidence[i].kind = "Pattern match" /\ evidence[j].kind = "Pattern match")
                      => TablePosition(entry.patterns, evidence[i].item[1])
                           < TablePosition(entry.patterns, evidence[j].item[1])

\* a result with two pattern lines, a keyword line, the hint line, and a
\* pattern line and a keyword line of the framework
C25_Witness ==
  /\ FromAnalyzeCode /\ result.language # "unknown"
  /\ Cardinality({i \in 1..Len(result.evidence) : result.evidence[i].kind = "Pattern match"}) > 1
  /\ \A kind \in {"Keyword found", "File extension hint", "Framework pattern", "Framework keyword"} :
        \E i \in 1..Len(result.evidence) : result.evidence[i].kind = kind

\* the keys of the language table
LanguageKeys == {language_patterns[k].name : k \in 1..Len(language_patterns)}

\* C26: every framework of the framework table is owned by a key of the
\* language table, and every language of the extension table is a key of
\* the language table.
C26_RegistryConsistent ==
  /\ \A k \in 1..Len(framework_patterns) : framework_patterns[k].language \in LanguageKeys
  /\ \A k \in 1..Len(file_extensions) : file_extensions[k].name \in LanguageKeys

\* a call has used all three tables: the hint of the extension table went to
\* the returned language, and a framework of that language is returned
C26_Witness ==
  /\ FromAnalyzeCode /\ result.framework # None
  /\ Hint = result.language
  /\ \E k \in 1..Len(framework_patterns) :
        /\ framework_patterns[k].name = result.framework
        /\ framework_patterns[k].language = result.language
  /\ \E k \in 1..Len(file_extensions) : file_extensions[k].name = result.language

\* an upper bound of the steps analyze_code has left: the iterations of the
\* two loops that remain, the hint application, the selection, the fusion
StepsLeft ==
  CASE pc = "start"     -> Len(language_patterns) + Len(framework_patterns) + 4
    [] pc = "score"     -> (Len(language_patterns) + 1 - lang_idx) + Len(framework_patterns) + 3
    [] pc = "hint"      -> Len(framework_patterns) + 3
    [] pc = "select"    -> Len(framework_patterns) + 2
    [] pc = "framework" -> (Len(framework_patterns) + 1 - fw_idx) + 1
    [] pc = "fuse"      -> 1
    [] OTHER            -> 0

\* analyze_code is between its entry and its return statement
Running == pc \in {"start", "score", "hint", "select", "framework", "fuse"}

\* the statement analyze_code is at completes: an iteration of a loop has
\* an entry of its table to work on, and re.findall raises on none of the
\* regexes of that entry
CanStep ==
  CASE pc = "score" ->
         /\ lang_idx \in 1..Len(language_patterns)
         /\ ~Raises(language_patterns[lang_idx].patterns
                      \o language_patterns[lang_idx].anti_patterns)
    [] pc = "framework" ->
         /\ fw_idx \in 1..Len(framework_patterns)
         /\ ~(/\ framework_patterns[fw_idx].language = best_language
              /\ Raises(framework_patterns[fw_idx].patterns))
    [] OTHER -> TRUE

\* C27: a call of analyze_code always completes its next step until it has a
\* DetectionResult, and every step leaves fewer steps to take: a language or
\* a framework is passed at most once, the hint and the selection happen
\* once, and the framework loop runs only after the selection.
C27_BoundedSteps ==
  /\ [](Running => (CanStep /\ StepsLeft > 0))
  /\ []((pc = "score") => lang_idx \in 1..Len(language_patterns))
  /\ []((pc \in {"framework", "fuse"}) =>
          /\ lang_idx = Len(language_patterns) + 1
          /\ best_language \in LanguageKeys
          /\ (pc = "framework" => fw_idx \in 1..Len(framework_patterns)))
  /\ []((pc \in {"start", "score", "hint", "select"}) => (best_language = None /\ fw_idx = 0))
  /\ []((pc = "done" /\ ~filepath.given) => result.language \in LanguageKeys \cup {"unknown"})
  /\ [][Running => (StepsLeft' < StepsLeft /\ (Running' \/ pc' = "done"))]_vars

\* a call has gone through every stage: all languages passed, a hint
\* applied, a language selected, all frameworks passed, a framework fused
C27_Witness ==
  /\ pc = "done"
  /\ lang_idx = Len(language_patterns) + 1
  /\ fw_idx = Len(framework_patterns) + 1
  /\ extension_hint = best_language
  /\ result.framework # None

\* C28: a result of analyze_code has confidence 0 exactly when its language
\* is "unknown"; a result that names a language of the table has a positive
\* confidence.
C28_ZeroIffUnknown ==
  FromAnalyzeCode =>
     /\ (result.confidence = 0 <=> result.language = "unknown")
     /\ (result.language \in LanguageKeys => result.confidence > 0)
     /\ result.language \in LanguageKeys \cup {"unknown"}

\* a language is returned on a single keyword, with the lowest positive
\* score a language of weight 1.0 can have
C28_Witness ==
  /\ FromAnalyzeCode
  /\ result.language \in LanguageKeys
  /\ Get(language_scores, result.language) = KeywordFactor
  /\ result.confidence < One

\* the lines of the result that a language scorer or the hint writes
LanguageLines ==
  SelectSeq(result.evidence,
            LAMBDA line : line.kind \in {"Pattern match", "Keyword found",
                                         "Anti-pattern found", "File extension hint"})

\* C29: the evidence of a result has the "File extension hint" line exactly
\* when the extension of the filename maps to the returned language, and its
\* language lines are those of the returned language only, also when the
\* hinted language was boosted and lost.
C29_HintLineIffWinner ==
  FromAnalyzeCode =>
     /\ (\E i \in 1..Len(result.evidence) : result.evidence[i].kind = "File extension hint")
           <=> (Hint # None /\ Hint = result.language)
     /\ result.language # "unknown" => LanguageLines = WinningEvidence

\* the hinted language is in the score map with its bonus and its hint
\* line, and another language is returned
C29_Witness ==
  /\ FromAnalyzeCode /\ result.language # "unknown"
  /\ Hint # None /\ Hint # result.language
  /\ Has(language_scores, Hint)
  /\ Get(language_scores, Hint) > RawScore(Hint)
  /\ \E i \in 1..Len(Get(language_evidence, Hint)) :
        Get(language_evidence, Hint)[i].kind = "File extension hint"

\* what analyze_file returns when the analysis of the content raised re.error
AnalysisFailed ==
  DetectionResult("unknown", 0, None, << Line("Error reading file", << re_error >>, 0) >>)

\* C30: analyze_file raises nothing: when the file was read and a framework
\* of the language the content is detected as has a malformed regex, the
\* error of re.findall is caught and "unknown", confidence 0 and the line
\* "Error reading file: <message of re.error>" are returned; a content the
\* malformed rule is not applied to has the result of its analysis.
C30_AnalysisErrorIsCaught ==
  filepath.given =>
     /\ pc # "raised"
     /\ (Returned /\ filename.given /\ BrokenRule) =>
          IF \E k \in 1..Len(framework_patterns) :
                /\ framework_patterns[k].language = OnFreshEngine.language
                /\ Raises(framework_patterns[k].patterns)
          THEN result = AnalysisFailed
          ELSE result = OnFreshEngine

\* a file was read, its content was scored as python, and the framework loop
\* stopped at the malformed rule of flask
C30_Witness ==
  /\ Returned /\ filepath.given /\ filename.given
  /\ best_language = "python"
  /\ fw_idx \in 1..Len(framework_patterns)
  /\ framework_patterns[fw_idx].name = "flask"
  /\ result = AnalysisFailed

====
